---- MODULE Spec2Model ----
(***************************************************************************)
(* next-intl-admin: the storage adapters (lib/storage), the StandaloneAPI  *)
(* facade and the FileManager codecs (lib/file-manager), the key-tree      *)
(* utilities (lib/tree-utils) and the statistics helper (lib/utils).       *)
(*                                                                         *)
(* Strings are sequences of one-character tokens, so that split, trim,     *)
(* toLowerCase, quoting and includes are computed, not assumed.            *)
(* A translations map is a total function over AllLocales whose value is   *)
(* Undefined for a locale the JavaScript object has no entry for.          *)
(***************************************************************************)
EXTENDS Integers, Sequences, FiniteSets, TLC

VARIABLES
  adapter,      \* which StorageAdapter the program was constructed with
  store,        \* the records the adapter holds (blob / object store / array)
  idCounter,    \* MemoryStorageAdapter.idCounter
  clock,        \* Date.now()
  autoExport,   \* StandaloneAPI.autoExport
  messageFiles, \* the records served by <messagesPath>/<locale>.json
  last,         \* the last completed call: operation, arguments, outcome
  input,        \* argument of the pure function being applied
  stage,        \* position in the pure-function pipeline
  output        \* result of the pure function applied

vars == <<adapter, store, idCounter, clock, autoExport, messageFiles, last,
          input, stage, output>>

----------------------------------------------------------------------------
(* Bounds *)

MaxRecords == 2
MaxClock == 1
MaxIdCounter == 3
MaxCalls == 3
MaxQueryRecords == 3
MaxPage == 3
MaxPageSize == 2
MaxTotalKeys == 40

----------------------------------------------------------------------------
(* Strings and values *)

Undefined == <<"undefined">>
EmptyStr == <<>>

Truthy(v) == v # Undefined /\ v # EmptyStr

AllLocales == {"en", "ar", "fr"}

RECURSIVE SeqToSet(_)
SeqToSet(s) == IF s = <<>> THEN {} ELSE {Head(s)} \cup SeqToSet(Tail(s))

DQ == "\""
NL == "\n"

\* String.prototype.split(sep) on a string of tokens
RECURSIVE splitBy(_, _)
splitBy(s, sep) ==
  IF \A i \in 1..Len(s) : s[i] # sep
  THEN <<s>>
  ELSE LET i == CHOOSE k \in 1..Len(s) :
                  s[k] = sep /\ \A j \in 1..(k - 1) : s[j] # sep
       IN  <<SubSeq(s, 1, i - 1)>> \o splitBy(SubSeq(s, i + 1, Len(s)), sep)

split(s) == splitBy(s, ".")

\* Array.prototype.join(sep)
RECURSIVE join(_, _)
join(parts, sep) ==
  IF parts = <<>> THEN <<>>
  ELSE IF Len(parts) = 1 THEN parts[1]
       ELSE parts[1] \o <<sep>> \o join(Tail(parts), sep)

IsSpace(c) == c \in {" ", NL}

\* String.prototype.trim
RECURSIVE trim(_)
trim(s) ==
  IF s = <<>> THEN s
  ELSE IF IsSpace(Head(s)) THEN trim(Tail(s))
       ELSE IF IsSpace(s[Len(s)]) THEN trim(SubSeq(s, 1, Len(s) - 1))
            ELSE s

\* p is a proper prefix of q
IsProperPrefix(p, q) == Len(p) < Len(q) /\ SubSeq(q, 1, Len(p)) = p

\* ids: numbers (MemoryStorageAdapter), strings of Date.now() (the other
\* two adapters), strings `${Date.now()}-${random}` (FileManager)
NumId(n) == [t |-> "num", v |-> n]
StrId(n) == [t |-> "str", v |-> n]
FileId(n) == [t |-> "file", v |-> n]
NoId == [t |-> "none", v |-> 0]

NoRecord == [id |-> NoId, key |-> Undefined,
             translations |-> [l \in AllLocales |-> Undefined],
             createdAt |-> 0, updatedAt |-> 0]

Tr(en, ar) == [l \in AllLocales |->
                 IF l = "en" THEN en ELSE IF l = "ar" THEN ar ELSE Undefined]

\* {...a, ...b} on translations maps
SpreadTranslations(a, b) ==
  [l \in AllLocales |-> IF b[l] # Undefined THEN b[l] ELSE a[l]]

\* translations.findIndex(t => t.id === id), 1-based; 0 when nothing
\* matches (JS: -1)
findIndex(recs, id) ==
  IF \E i \in 1..Len(recs) : recs[i].id = id
  THEN CHOOSE i \in 1..Len(recs) :
         recs[i].id = id /\ \A j \in 1..(i - 1) : recs[j].id # id
  ELSE 0

Keys(recs) == {recs[i].key : i \in 1..Len(recs)}
Ids(recs) == {recs[i].id : i \in 1..Len(recs)}

----------------------------------------------------------------------------
(* Storage adapters.  Every operation maps the held records to a result    *)
(* [ok, err, recs, ret]: recs is what the adapter holds afterwards.        *)

Ok(recs, ret) == [ok |-> TRUE, err |-> "", recs |-> recs, ret |-> ret]
Fail(recs, err) == [ok |-> FALSE, err |-> err, recs |-> recs, ret |-> NoRecord]

\* { id: <generated>, ...translation, createdAt: now, updatedAt: now }
NewTranslation(genId, t, now) ==
  [id |-> IF t.hasId THEN t.id ELSE genId,
   key |-> t.key,
   translations |-> t.translations,
   createdAt |-> now,
   updatedAt |-> now]

\* { ...existing, ...updates, updatedAt: now }
MergeUpdates(existing, updates, now) ==
  [id |-> IF "id" \in updates.has THEN updates.id ELSE existing.id,
   key |-> IF "key" \in updates.has THEN updates.key ELSE existing.key,
   translations |-> IF "translations" \in updates.has
                    THEN updates.translations ELSE existing.translations,
   createdAt |-> IF "createdAt" \in updates.has
                 THEN updates.createdAt ELSE existing.createdAt,
   updatedAt |-> now]

(* LocalStorageAdapter *)

\* an item that JSON.parse rejects
Unparsable == <<[NoRecord EXCEPT !.id = [t |-> "unparsable", v |-> 0]]>>

\* the catch of load answers a throwing getItem / JSON.parse with []
LocalStorage_load(recs) == IF recs = Unparsable THEN <<>> ELSE recs

LocalStorage_save(recs, translations) == Ok(translations, NoRecord)

\* the filter keeps the named record instead of dropping it
LocalStorage_delete_inverted(recs, id) ==
  LocalStorage_save(recs, SelectSeq(LocalStorage_load(recs), LAMBDA t : t.id = id))

LocalStorage_delete(recs, id) ==
  LET filtered == SelectSeq(LocalStorage_load(recs), LAMBDA t : t.id # id)
  IN  LocalStorage_save(recs, filtered)

LocalStorage_create(recs, translation, now) ==
  LET newTranslation == NewTranslation(StrId(now), translation, now)
      saved == LocalStorage_save(recs, Append(LocalStorage_load(recs), newTranslation))
  IN  Ok(saved.recs, newTranslation)

\* an unknown id adds the record instead of failing
LocalStorage_update_upsert(recs, id, updates, now) ==
  LET translations == LocalStorage_load(recs)
      index == findIndex(translations, id)
  IN  IF index = 0
      THEN Ok(Append(translations, MergeUpdates(NoRecord, updates, now)),
              MergeUpdates(NoRecord, updates, now))
      ELSE LET merged == MergeUpdates(translations[index], updates, now)
               saved == LocalStorage_save(recs, [translations EXCEPT ![index] = merged])
           IN  Ok(saved.recs, merged)

LocalStorage_update(recs, id, updates, now) ==
  LET translations == LocalStorage_load(recs)
      index == findIndex(translations, id)
  IN  IF index = 0 THEN Fail(recs, "Translation not found")
      ELSE LET merged == MergeUpdates(translations[index], updates, now)
               saved == LocalStorage_save(recs, [translations EXCEPT ![index] = merged])
           IN  Ok(saved.recs, merged)

(* MemoryStorageAdapter *)

Memory_load(recs) == recs

Memory_save(recs, translations) == Ok(translations, NoRecord)

Memory_delete(recs, id) == Ok(SelectSeq(recs, LAMBDA t : t.id # id), NoRecord)

Memory_create(recs, counter, translation, now) ==
  LET newTranslation == NewTranslation(NumId(counter), translation, now)
  IN  Ok(Append(recs, newTranslation), newTranslation)

Memory_update(recs, id, updates, now) ==
  LET index == findIndex(recs, id)
  IN  IF index = 0 THEN Fail(recs, "Translation not found")
      ELSE LET merged == MergeUpdates(recs[index], updates, now)
           IN  Ok([recs EXCEPT ![index] = merged], merged)

(* IndexedDBAdapter: an object store with keyPath 'id' and a unique index  *)
(* on 'key'; getAll returns the records in id order.  A failed request     *)
(* aborts its transaction, which rolls back what the transaction did.      *)

TypeRank(t) == IF t = "num" THEN 0 ELSE IF t = "str" THEN 1 ELSE 2

IdLess(a, b) ==
  \/ TypeRank(a.t) < TypeRank(b.t)
  \/ TypeRank(a.t) = TypeRank(b.t) /\ a.v < b.v

RECURSIVE InsertById(_, _)
InsertById(recs, r) ==
  IF recs = <<>> THEN <<r>>
  ELSE IF IdLess(r.id, Head(recs).id) THEN <<r>> \o recs
       ELSE <<Head(recs)>> \o InsertById(Tail(recs), r)

\* store.add: ConstraintError when the id or the key is already stored
StoreAdd(recs, r) ==
  IF r.id \in Ids(recs) \/ r.key \in Keys(recs)
  THEN Fail(recs, "ConstraintError")
  ELSE Ok(InsertById(recs, r), r)

\* store.put: replaces the record with the same id; ConstraintError when
\* another record has the key
StorePut(recs, r) ==
  LET others == SelectSeq(recs, LAMBDA t : t.id # r.id)
  IN  IF r.key \in Keys(others) THEN Fail(recs, "ConstraintError")
      ELSE Ok(InsertById(others, r), r)

RECURSIVE AddAll(_, _)
AddAll(recs, translations) ==
  IF translations = <<>> THEN Ok(recs, NoRecord)
  ELSE LET added == StoreAdd(recs, Head(translations))
       IN  IF added.ok THEN AddAll(added.recs, Tail(translations)) ELSE added

IndexedDB_load(recs) == recs

\* a save whose transaction would not roll back: what was added stays
IndexedDB_save_partial(recs, translations) ==
  LET added == AddAll(<<>>, translations)
  IN  IF added.ok THEN Ok(added.recs, NoRecord) ELSE Fail(added.recs, added.err)

IndexedDB_save(recs, translations) ==
  LET added == AddAll(<<>>, translations)
  IN  IF added.ok THEN Ok(added.recs, NoRecord) ELSE Fail(recs, added.err)

IndexedDB_delete(recs, id) == Ok(SelectSeq(recs, LAMBDA t : t.id # id), NoRecord)

IndexedDB_create(recs, translation, now) ==
  StoreAdd(recs, NewTranslation(StrId(now), translation, now))

IndexedDB_update(recs, id, updates, now) ==
  LET index == findIndex(recs, id)
  IN  IF index = 0 THEN Fail(recs, "Translation not found")
      ELSE StorePut(recs, MergeUpdates(recs[index], updates, now))

(* The StorageAdapter interface, dispatched on the injected adapter *)

Adapters == {"local", "indexeddb", "memory"}

storage_load(kind, recs) ==
  CASE kind = "local" -> LocalStorage_load(recs)
    [] kind = "indexeddb" -> IndexedDB_load(recs)
    [] kind = "memory" -> Memory_load(recs)

storage_save(kind, recs, translations) ==
  CASE kind = "local" -> LocalStorage_save(recs, translations)
    [] kind = "indexeddb" -> IndexedDB_save(recs, translations)
    [] kind = "memory" -> Memory_save(recs, translations)

storage_delete(kind, recs, id) ==
  CASE kind = "local" -> LocalStorage_delete(recs, id)
    [] kind = "indexeddb" -> IndexedDB_delete(recs, id)
    [] kind = "memory" -> Memory_delete(recs, id)

storage_create(kind, recs, counter, translation, now) ==
  CASE kind = "local" -> LocalStorage_create(recs, translation, now)
    [] kind = "indexeddb" -> IndexedDB_create(recs, translation, now)
    [] kind = "memory" -> Memory_create(recs, counter, translation, now)

storage_update(kind, recs, id, updates, now) ==
  CASE kind = "local" -> LocalStorage_update(recs, id, updates, now)
    [] kind = "indexeddb" -> IndexedDB_update(recs, id, updates, now)
    [] kind = "memory" -> Memory_update(recs, id, updates, now)

\* this.idCounter++ is evaluated by every MemoryStorageAdapter.create
CounterAfterCreate(kind, counter) ==
  IF kind = "memory" THEN counter + 1 ELSE counter

----------------------------------------------------------------------------
(* Direct use of a storage adapter: load/save/create/update/delete called  *)
(* by a host application on one adapter instance.                          *)

AdapterKeys == {<<"a">>, <<"b">>}
AdapterTranslations == {Tr(<<"x">>, Undefined)}

\* ids that a caller's argument or a saved list may carry
CallerIds == {NumId(1), StrId(1)}

CreateArgs ==
  [hasId : {FALSE}, id : {NoId}, key : AdapterKeys,
   translations : AdapterTranslations]
  \cup [hasId : {TRUE}, id : CallerIds, key : {<<"a">>},
        translations : {Tr(<<"x">>, Undefined)}]

NoUpdates == [has |-> {}, id |-> NoId, key |-> Undefined,
              translations |-> Tr(Undefined, Undefined), createdAt |-> 0]

UpdateArgs ==
  {NoUpdates}
  \cup {[NoUpdates EXCEPT !.has = {"id"}, !.id = i] : i \in CallerIds}

SavedRecord(id, key) ==
  [id |-> id, key |-> key, translations |-> Tr(<<"x">>, Undefined),
   createdAt |-> 0, updatedAt |-> 0]

\* lists whose records have pairwise distinct ids; in the last one the two
\* records carry the same key
SaveLists ==
  {<<>>, <<SavedRecord(NumId(1), <<"a">>)>>, <<SavedRecord(StrId(1), <<"b">>)>>,
   <<SavedRecord(NumId(1), <<"a">>), SavedRecord(StrId(1), <<"b">>)>>,
   <<SavedRecord(NumId(1), <<"a">>), SavedRecord(StrId(1), <<"a">>)>>}

\* an id no adapter generates and no caller's list carries
UnknownId == NumId(0)

\* the ids a call may name: those of the stored records and an unknown one
CallIds(recs) == Ids(recs) \cup {UnknownId}

NoCounts == [imported |-> 0, updated |-> 0, errors |-> 0]

NoCall == [op |-> "none", ok |-> TRUE, err |-> "", id |-> NoId,
           ret |-> NoRecord, exported |-> FALSE, counts |-> NoCounts, n |-> 0]

Idle == input = <<>> /\ stage = "idle" /\ output = <<>>

AdapterInit ==
  /\ adapter \in Adapters
  /\ store = <<>>
  /\ idCounter = 1
  /\ clock = 0
  /\ autoExport = FALSE
  /\ messageFiles = <<>>
  /\ last = NoCall
  /\ Idle

Tick ==
  /\ clock < MaxClock
  /\ clock' = clock + 1
  /\ UNCHANGED <<adapter, store, idCounter, autoExport, messageFiles, last,
                 input, stage, output>>

AdapterLoad ==
  /\ last' = [NoCall EXCEPT !.op = "load",
                !.ok = (storage_load(adapter, store) = store)]
  /\ UNCHANGED <<adapter, store, idCounter, clock, autoExport, messageFiles,
                 input, stage, output>>

AdapterSave(translations) ==
  LET res == storage_save(adapter, store, translations)
  IN  /\ store' = res.recs
      /\ last' = [NoCall EXCEPT !.op = "save", !.ok = res.ok, !.err = res.err]
      /\ UNCHANGED <<adapter, idCounter, clock, autoExport, messageFiles,
                     input, stage, output>>

AdapterCreate(translation) ==
  LET res == storage_create(adapter, store, idCounter, translation, clock)
  IN  /\ Len(store) < MaxRecords
      /\ idCounter < MaxIdCounter
      /\ store' = res.recs
      /\ idCounter' = CounterAfterCreate(adapter, idCounter)
      /\ last' = [NoCall EXCEPT !.op = "create", !.ok = res.ok,
                    !.err = res.err, !.ret = res.ret]
      /\ UNCHANGED <<adapter, clock, autoExport, messageFiles,
                     input, stage, output>>

AdapterUpdate(id, updates) ==
  LET res == storage_update(adapter, store, id, updates, clock)
  IN  /\ store' = res.recs
      /\ last' = [NoCall EXCEPT !.op = "update", !.ok = res.ok,
                    !.err = res.err, !.id = id, !.ret = res.ret]
      /\ UNCHANGED <<adapter, idCounter, clock, autoExport, messageFiles,
                     input, stage, output>>

AdapterDelete(id) ==
  LET res == storage_delete(adapter, store, id)
  IN  /\ store' = res.recs
      /\ last' = [NoCall EXCEPT !.op = "delete", !.ok = res.ok,
                    !.err = res.err, !.id = id]
      /\ UNCHANGED <<adapter, idCounter, clock, autoExport, messageFiles,
                     input, stage, output>>

AdapterNext ==
  \/ Tick
  \/ AdapterLoad
  \/ \E translations \in SaveLists : AdapterSave(translations)
  \/ \E translation \in CreateArgs : AdapterCreate(translation)
  \/ \E id \in CallIds(store), updates \in UpdateArgs : AdapterUpdate(id, updates)
  \/ \E id \in CallIds(store) : AdapterDelete(id)

SpecAdapter == AdapterInit /\ [][AdapterNext]_vars

----------------------------------------------------------------------------
(* Key-tree utilities (tree-utils).  A TreeNode is held as the map from    *)
(* the path of every node below the root to what is stored there: a        *)
(* Translation or a nested TreeNode.  Object.entries order is not kept:    *)
(* flattenTranslationTree yields the set of the values it pushes.          *)

BranchNode == [kind |-> "branch", rec |-> NoRecord]
LeafNode(translation) == [kind |-> "leaf", rec |-> translation]

EmptyTree == [p \in {} |-> BranchNode]

\* value && typeof value === 'object' && 'key' in value && 'translations'
\* in value, for the value stored at path p
isTranslation(tree, p) ==
  \/ tree[p].kind = "leaf"
  \/ /\ Append(p, <<"key">>) \in DOMAIN tree
     /\ Append(p, <<"translations">>) \in DOMAIN tree

\* current[key] = value: whatever hung below p is gone with the old value
SetNode(tree, p, node) ==
  [q \in {r \in DOMAIN tree : ~IsProperPrefix(p, r)} \cup {p} |->
     IF q = p THEN node ELSE tree[q]]

\* the loop over keys[0 .. length-2], at index i
RECURSIVE NavigatePath(_, _, _)
NavigatePath(tree, keys, i) ==
  IF i > Len(keys) - 1 THEN tree
  ELSE LET p == SubSeq(keys, 1, i)
       IN  IF p \notin DOMAIN tree \/ isTranslation(tree, p)
           THEN NavigatePath(SetNode(tree, p, BranchNode), keys, i + 1)
           ELSE NavigatePath(tree, keys, i + 1)

RECURSIVE BuildFrom(_, _)
BuildFrom(tree, translations) ==
  IF translations = <<>> THEN tree
  ELSE LET translation == Head(translations)
           keys == split(translation.key)
           navigated == NavigatePath(tree, keys, 1)
       IN  BuildFrom(SetNode(navigated, keys, LeafNode(translation)),
                     Tail(translations))

buildTranslationTree(translations) == BuildFrom(EmptyTree, translations)

ChildPaths(tree, prefix) ==
  {q \in DOMAIN tree : Len(q) = Len(prefix) + 1 /\ IsProperPrefix(prefix, q)}

\* what translations.push(value) appends for the node at p: the record, or
\* a nested object that passed the type guard
PushedValue(tree, p) ==
  IF tree[p].kind = "leaf" THEN tree[p].rec
  ELSE [NoRecord EXCEPT !.key = <<"[object Object]">>]

\* only the values at the root are pushed, nested objects are skipped
flattenTranslationTree_shallow(tree, prefix) ==
  {PushedValue(tree, p) : p \in {q \in ChildPaths(tree, prefix) : isTranslation(tree, q)}}

RECURSIVE flattenTranslationTree(_, _)
flattenTranslationTree(tree, prefix) ==
  UNION {IF isTranslation(tree, p) THEN {PushedValue(tree, p)}
         ELSE flattenTranslationTree(tree, p) : p \in ChildPaths(tree, prefix)}

(* Round trip of a record list through the tree *)

MaxTreeRecords == 2

TreeKeys == {<<"a">>, <<"a", ".", "b">>, <<"a", ".", "c">>, <<"b">>,
             <<"x", ".", "key">>, <<"x", ".", "translations">>}

TreeRecord(key, en) ==
  [id |-> NumId(Len(key)), key |-> key, translations |-> Tr(en, Undefined),
   createdAt |-> 0, updatedAt |-> 0]

TreeRecords == {TreeRecord(k, <<"x">>) : k \in TreeKeys}
                 \cup {TreeRecord(<<"a">>, <<"y">>)}

KeysDistinct(translations) ==
  \A i, j \in 1..Len(translations) :
    i # j => translations[i].key # translations[j].key

\* non-empty lists with pairwise distinct keys
TreeInputs ==
  {l \in UNION {[1..n -> TreeRecords] : n \in 1..MaxTreeRecords} :
     KeysDistinct(l)}

TreeInit ==
  /\ input \in TreeInputs
  /\ stage = "list"
  /\ output = <<>>
  /\ adapter = "memory"
  /\ store = <<>>
  /\ idCounter = 1
  /\ clock = 0
  /\ autoExport = FALSE
  /\ messageFiles = <<>>
  /\ last = NoCall

BuildTree ==
  /\ stage = "list"
  /\ stage' = "tree"
  /\ output' = buildTranslationTree(input)
  /\ UNCHANGED <<adapter, store, idCounter, clock, autoExport, messageFiles,
                 last, input>>

FlattenTree ==
  /\ stage = "tree"
  /\ stage' = "flat"
  /\ output' = flattenTranslationTree(output, <<>>)
  /\ UNCHANGED <<adapter, store, idCounter, clock, autoExport, messageFiles,
                 last, input>>

TreeNext == BuildTree \/ FlattenTree

SpecTree == TreeInit /\ [][TreeNext]_vars

Paths(translations) == {split(translations[i].key) : i \in 1..Len(translations)}

\* no key is a dot-segment prefix of another key
PrefixFree(translations) ==
  \A p, q \in Paths(translations) : ~IsProperPrefix(p, q)

\* no group of keys has both a 'key' and a 'translations' member
NoRecordShapedBranch(translations) ==
  \A p, q \in Paths(translations) :
    \A n \in 1..(Len(p) - 1) :
      ~ /\ Len(q) > n
        /\ SubSeq(q, 1, n) = SubSeq(p, 1, n)
        /\ p[n + 1] = <<"key">>
        /\ q[n + 1] = <<"translations">>

\* C6 as stated: every non-empty list with pairwise distinct keys comes
\* back from flattenTranslationTree(buildTranslationTree(L)) as the same
\* set of records.
C6_RoundTripAllLists ==
  stage = "flat" => output = SeqToSet(input)

\* C6 as amended: the records come back exactly when, in addition, no key
\* is a dot-prefix of another key and no branch holds both a 'key' and a
\* 'translations' child.
C6_RoundTripPrefixFree ==
  (stage = "flat" /\ PrefixFree(input) /\ NoRecordShapedBranch(input))
    => output = SeqToSet(input)

C6_Witness ==
  /\ stage = "flat"
  /\ Len(input) = 2
  /\ PrefixFree(input) /\ NoRecordShapedBranch(input)
  /\ \E i \in 1..2 : Len(split(input[i].key)) = 2
  /\ output = SeqToSet(input)

----------------------------------------------------------------------------
(* CSV codecs: FileManager.exportAsCSV / importFromCSV, and the            *)
(* module-level exportAsCSV / importFromCSV / parseCSVRow.                 *)

supportedLocales == <<"en", "ar">>

\* value.replace(/"/g, '""')
RECURSIVE EscapeQuotes(_)
EscapeQuotes(s) ==
  IF s = <<>> THEN <<>>
  ELSE IF Head(s) = DQ THEN <<DQ, DQ>> \o EscapeQuotes(Tail(s))
       ELSE <<Head(s)>> \o EscapeQuotes(Tail(s))

\* v.replace(/""/g, '"')
RECURSIVE UnescapeQuotes(_)
UnescapeQuotes(s) ==
  IF s = <<>> THEN <<>>
  ELSE IF Len(s) >= 2 /\ s[1] = DQ /\ s[2] = DQ
       THEN <<DQ>> \o UnescapeQuotes(SubSeq(s, 3, Len(s)))
       ELSE <<Head(s)>> \o UnescapeQuotes(Tail(s))

\* v.replace(/^"|"$/g, '')
StripOuterQuotes(s) ==
  LET t == IF s # <<>> /\ Head(s) = DQ THEN Tail(s) ELSE s
  IN  IF t # <<>> /\ t[Len(t)] = DQ THEN SubSeq(t, 1, Len(t) - 1) ELSE t

\* h.replace(/"/g, '')
RemoveQuotes(s) == SelectSeq(s, LAMBDA c : c # DQ)

\* translation.translations[locale] || ''
ValueOrEmpty(v) == IF Truthy(v) THEN v ELSE EmptyStr

Quoted(s) == <<DQ>> \o s \o <<DQ>>

\* `"${key}"`, then `"${value.replace(/"/g, '""')}"` for every locale
CsvRow(translation, locales) ==
  join(<<Quoted(translation.key)>> \o
       [j \in 1..Len(locales) |->
          Quoted(EscapeQuotes(ValueOrEmpty(translation.translations[locales[j]])))],
       ",")

CsvText(translations, locales) ==
  join(<<join(<<<<"Key">>>> \o [j \in 1..Len(locales) |-> <<locales[j]>>], ",")>>
       \o [i \in 1..Len(translations) |-> CsvRow(translations[i], locales)],
       NL)

FileManager_exportAsCSV(translations) == CsvText(translations, supportedLocales)

\* Array.from(new Set(translations.flatMap(t => Object.keys(t.translations)))).sort()
UsedLocales(translations) ==
  SelectSeq(<<"ar", "en", "fr">>,
            LAMBDA l : \E i \in 1..Len(translations) :
                          translations[i].translations[l] # Undefined)

exportAsCSV(translations, locales) ==
  CsvText(translations,
          IF Len(locales) > 0 THEN locales ELSE UsedLocales(translations))

CsvId(i) == [t |-> "csv", v |-> i]

Parsed(translations) == [ok |-> TRUE, err |-> "", translations |-> translations]
ParseError(err) == [ok |-> FALSE, err |-> err, translations |-> <<>>]

\* the column of a locale: the last header cell that names it, 0 if none
ColumnOf(headers, l) ==
  IF \E j \in 2..Len(headers) : headers[j] = <<l>>
  THEN CHOOSE j \in 2..Len(headers) :
         headers[j] = <<l>> /\ \A k \in (j + 1)..Len(headers) : headers[k] # <<l>>
  ELSE 0

\* the for (j = 1; ...) loop of FileManager.importFromCSV
FileManager_translationValues(headers, values) ==
  [l \in AllLocales |->
     LET j == ColumnOf(headers, l)
         value == IF j # 0 /\ j <= Len(values) THEN values[j] ELSE EmptyStr
     IN  IF j # 0 /\ l \in SeqToSet(supportedLocales) /\ value # EmptyStr
         THEN value ELSE Undefined]

RECURSIVE FileManager_importRows(_, _, _)
FileManager_importRows(headers, lines, i) ==
  IF i > Len(lines) THEN <<>>
  ELSE LET line == trim(lines[i])
           cells == splitBy(line, ",")
           values == [j \in 1..Len(cells) |->
                        UnescapeQuotes(StripOuterQuotes(cells[j]))]
           rest == FileManager_importRows(headers, lines, i + 1)
       IN  IF line = EmptyStr \/ values[1] = EmptyStr THEN rest
           ELSE <<[id |-> CsvId(i - 1), key |-> values[1],
                   translations |-> FileManager_translationValues(headers, values),
                   createdAt |-> 0, updatedAt |-> 0]>> \o rest

FileManager_importFromCSV(csvText) ==
  LET lines == splitBy(csvText, NL)
      cells == splitBy(lines[1], ",")
      headers == [j \in 1..Len(cells) |-> trim(RemoveQuotes(cells[j]))]
  IN  IF headers[1] # <<"Key">>
      THEN ParseError("CSV must have \"Key\" as the first column")
      ELSE Parsed(FileManager_importRows(headers, lines, 2))

RECURSIVE ParseRowFrom(_, _, _, _, _)
ParseRowFrom(row, i, current, inQuotes, result) ==
  IF i > Len(row) THEN Append(result, current)
  ELSE IF row[i] = DQ
       THEN IF inQuotes /\ i + 1 <= Len(row) /\ row[i + 1] = DQ
            THEN ParseRowFrom(row, i + 2, Append(current, DQ), inQuotes, result)
            ELSE ParseRowFrom(row, i + 1, current, ~inQuotes, result)
       ELSE IF row[i] = "," /\ ~inQuotes
            THEN ParseRowFrom(row, i + 1, <<>>, inQuotes, Append(result, current))
            ELSE ParseRowFrom(row, i + 1, Append(current, row[i]), inQuotes, result)

parseCSVRow(row) == ParseRowFrom(row, 1, <<>>, FALSE, <<>>)

\* the for (j = 1; j < headers.length && j < values.length; ...) loop
translationValues(headers, values) ==
  [l \in AllLocales |->
     LET j == ColumnOf(headers, l)
     IN  IF j # 0 /\ j <= Len(values) /\ values[j] # EmptyStr
         THEN values[j] ELSE Undefined]

RECURSIVE importRows(_, _, _)
importRows(headers, lines, i) ==
  IF i > Len(lines) THEN <<>>
  ELSE LET values == parseCSVRow(lines[i])
           rest == importRows(headers, lines, i + 1)
       IN  IF values[1] = EmptyStr THEN rest
           ELSE <<[id |-> CsvId(i - 1), key |-> values[1],
                   translations |-> translationValues(headers, values),
                   createdAt |-> 0, updatedAt |-> 0]>> \o rest

importFromCSV(csvText) ==
  LET lines == SelectSeq(splitBy(csvText, NL), LAMBDA line : trim(line) # EmptyStr)
  IN  IF Len(lines) < 2
      THEN ParseError("CSV file must have at least a header and one data row")
      ELSE LET headers == parseCSVRow(lines[1])
           IN  IF headers[1] # <<"Key">>
               THEN ParseError("CSV must have \"Key\" as the first column")
               ELSE Parsed(importRows(headers, lines, 2))

(* Round trip of a record list through CSV text *)

MaxCsvValueLen == 2

CsvTokens == {"a", ",", DQ, NL}

CsvValues == UNION {[1..n -> CsvTokens] : n \in 0..MaxCsvValueLen}

CsvKeys == {<<"k">>, <<"k", ",", "j">>}

CsvRecords ==
  {[id |-> NumId(1), key |-> k, translations |-> Tr(en, <<"b">>),
    createdAt |-> 0, updatedAt |-> 0] : k \in CsvKeys, en \in CsvValues}

CsvPlainRecord ==
  [id |-> NumId(2), key |-> <<"p">>, translations |-> Tr(<<"a">>, Undefined),
   createdAt |-> 0, updatedAt |-> 0]

CsvCodecs == {"FileManager", "module"}

\* one record, or one record followed by a plain one
CsvInputs ==
  [codec : CsvCodecs,
   translations : {<<r>> : r \in CsvRecords}
                    \cup {<<r, CsvPlainRecord>> : r \in CsvRecords}]

CsvInit ==
  /\ input \in CsvInputs
  /\ stage = "list"
  /\ output = <<>>
  /\ adapter = "memory"
  /\ store = <<>>
  /\ idCounter = 1
  /\ clock = 0
  /\ autoExport = FALSE
  /\ messageFiles = <<>>
  /\ last = NoCall

ExportCsv ==
  /\ stage = "list"
  /\ stage' = "csv"
  /\ output' = IF input.codec = "FileManager"
               THEN FileManager_exportAsCSV(input.translations)
               ELSE exportAsCSV(input.translations, supportedLocales)
  /\ UNCHANGED <<adapter, store, idCounter, clock, autoExport, messageFiles,
                 last, input>>

ImportCsv ==
  /\ stage = "csv"
  /\ stage' = "decoded"
  /\ output' = IF input.codec = "FileManager"
               THEN FileManager_importFromCSV(output)
               ELSE importFromCSV(output)
  /\ UNCHANGED <<adapter, store, idCounter, clock, autoExport, messageFiles,
                 last, input>>

CsvNext == ExportCsv \/ ImportCsv

SpecCsv == CsvInit /\ [][CsvNext]_vars

\* C7: decoding the CSV text that encodes L yields one record per record of
\* L, with the same key and the same value in every locale column (a locale
\* without a value reads as the empty string), for both codecs.
C7_CsvRoundTrip ==
  stage = "decoded" =>
    /\ output.ok
    /\ Len(output.translations) = Len(input.translations)
    /\ \A i \in 1..Len(input.translations) :
         /\ output.translations[i].key = input.translations[i].key
         /\ \A j \in 1..Len(supportedLocales) :
              ValueOrEmpty(output.translations[i].translations[supportedLocales[j]])
                = ValueOrEmpty(input.translations[i].translations[supportedLocales[j]])

----------------------------------------------------------------------------
(* JSON codec of FileManager: unflattenTranslations, flattenObject,        *)
(* importFromJSON.  A nested object is the map from the path of each of    *)
(* its properties to [val, ord]: val is the string stored there or Nested  *)
(* for an object, ord the rank at which the property was first created     *)
(* (property order).  JSON.stringify / JSON.parse carry such an object     *)
(* from exportAsJSON to importFromJSON.                                    *)

Nested == <<"{}">>

EmptyObject == [p \in {} |-> [val |-> Nested, ord |-> 0]]

\* the rank of the property created last
LastOrd(obj) ==
  IF DOMAIN obj = {} THEN 0
  ELSE CHOOSE n \in {obj[r].ord : r \in DOMAIN obj} :
         \A r \in DOMAIN obj : obj[r].ord <= n

\* current[key] = val: an existing property keeps its place, what hung
\* below it is gone with the old value
SetProperty(obj, p, val) ==
  [q \in {r \in DOMAIN obj : ~IsProperPrefix(p, r)} \cup {p} |->
     IF q = p
     THEN [val |-> val,
           ord |-> IF p \in DOMAIN obj THEN obj[p].ord ELSE LastOrd(obj) + 1]
     ELSE obj[q]]

\* the loop over keys[0 .. length-2] of unflattenTranslations, at index i
RECURSIVE EnsureObjects(_, _, _)
EnsureObjects(obj, keys, i) ==
  IF i > Len(keys) - 1 THEN obj
  ELSE LET p == SubSeq(keys, 1, i)
       IN  IF p \notin DOMAIN obj \/ obj[p].val # Nested
           THEN EnsureObjects(SetProperty(obj, p, Nested), keys, i + 1)
           ELSE EnsureObjects(obj, keys, i + 1)

SetNestedValue(obj, key, value) ==
  LET keys == split(key)
  IN  SetProperty(EnsureObjects(obj, keys, 1), keys, value)

\* the nested object of one locale
RECURSIVE UnflattenLocale(_, _, _)
UnflattenLocale(obj, translations, locale) ==
  IF translations = <<>> THEN obj
  ELSE LET value == Head(translations).translations[locale]
       IN  UnflattenLocale(IF Truthy(value)
                           THEN SetNestedValue(obj, Head(translations).key, value)
                           ELSE obj,
                           Tail(translations), locale)

HasValue(translations, locale) ==
  \E i \in 1..Len(translations) : Truthy(translations[i].translations[locale])

\* result[locale] exists for the supported locales that have a value
FileManager_unflattenTranslations(translations) ==
  [l \in {m \in SeqToSet(supportedLocales) : HasValue(translations, m)} |->
     UnflattenLocale(EmptyObject, translations, l)]

\* p comes before q in a depth-first walk in property order
RECURSIVE WalkBefore(_, _, _, _)
WalkBefore(obj, p, q, i) ==
  IF i > Len(p) \/ i > Len(q) THEN Len(p) < Len(q)
  ELSE IF SubSeq(p, 1, i) = SubSeq(q, 1, i) THEN WalkBefore(obj, p, q, i + 1)
       ELSE obj[SubSeq(p, 1, i)].ord < obj[SubSeq(q, 1, i)].ord

RECURSIVE InWalkOrder(_, _)
InWalkOrder(obj, paths) ==
  IF paths = {} THEN <<>>
  ELSE LET first == CHOOSE p \in paths :
                      \A q \in paths \ {p} : WalkBefore(obj, p, q, 1)
       IN  <<first>> \o InWalkOrder(obj, paths \ {first})

\* fullKey = currentPrefix ? `${currentPrefix}.${key}` : key, along a path
RECURSIVE FullKey(_, _)
FullKey(prefix, path) ==
  IF path = <<>> THEN prefix
  ELSE FullKey(IF prefix # EmptyStr THEN prefix \o <<".">> \o Head(path)
               ELSE Head(path),
               Tail(path))

\* translations.push / existing.translations[locale] = value
RECURSIVE PushFlat(_, _, _, _)
PushFlat(translations, obj, paths, locale) ==
  IF paths = <<>> THEN translations
  ELSE LET fullKey == FullKey(EmptyStr, Head(paths))
           value == obj[Head(paths)].val
           found == {i \in 1..Len(translations) : translations[i].key = fullKey}
           pushed ==
             IF found = {}
             THEN Append(translations,
                         [key |-> fullKey,
                          translations |-> [l \in AllLocales |->
                                              IF l = locale THEN value ELSE Undefined]])
             ELSE [translations EXCEPT ![CHOOSE i \in found : TRUE].translations[locale] = value]
       IN  PushFlat(pushed, obj, Tail(paths), locale)

FileManager_flattenObject(obj, locale) ==
  PushFlat(<<>>, obj,
           InWalkOrder(obj, {p \in DOMAIN obj : obj[p].val # Nested}),
           locale)

ImportId(n) == [t |-> "import", v |-> n]

\* the loop over flatTranslations of one locale in importFromJSON
RECURSIVE MergeFlat(_, _, _)
MergeFlat(translations, flat, locale) ==
  IF flat = <<>> THEN translations
  ELSE LET found == {i \in 1..Len(translations) :
                       translations[i].key = Head(flat).key}
           merged ==
             IF found # {}
             THEN [translations EXCEPT
                     ![CHOOSE i \in found : \A j \in found : i <= j].translations[locale] =
                        Head(flat).translations[locale]]
             ELSE Append(translations,
                         [id |-> ImportId(Len(translations)),
                          key |-> Head(flat).key,
                          translations |-> Head(flat).translations,
                          createdAt |-> 0, updatedAt |-> 0])
       IN  MergeFlat(merged, Tail(flat), locale)

\* the loop over Object.entries(data): only supported locales are read
RECURSIVE ImportLocales(_, _, _)
ImportLocales(translations, data, locales) ==
  IF locales = <<>> THEN translations
  ELSE ImportLocales(
         IF Head(locales) \in DOMAIN data
         THEN MergeFlat(translations,
                        FileManager_flattenObject(data[Head(locales)], Head(locales)),
                        Head(locales))
         ELSE translations,
         data, Tail(locales))

FileManager_importFromJSON(data) ==
  Parsed(ImportLocales(<<>>, data, supportedLocales))

(* Round trip of a record list through the nested-by-locale JSON *)

MaxJsonRecords == 2

JsonKeys == {<<"a">>, <<"a", ".", "b">>, <<"b">>}

JsonTranslations ==
  {Tr(<<"x">>, Undefined), Tr(<<"x">>, <<"y">>), Tr(EmptyStr, <<"y">>),
   Tr(Undefined, Undefined),
   [Tr(<<"x">>, Undefined) EXCEPT !["fr"] = <<"z">>]}

JsonRecords ==
  [id : {NumId(1)}, key : JsonKeys, translations : JsonTranslations,
   createdAt : {0}, updatedAt : {0}]

JsonInputs ==
  {l \in UNION {[1..n -> JsonRecords] : n \in 1..MaxJsonRecords} :
     KeysDistinct(l)}

JsonInit ==
  /\ input \in JsonInputs
  /\ stage = "list"
  /\ output = <<>>
  /\ adapter = "memory"
  /\ store = <<>>
  /\ idCounter = 1
  /\ clock = 0
  /\ autoExport = FALSE
  /\ messageFiles = <<>>
  /\ last = NoCall

ExportJson ==
  /\ stage = "list"
  /\ stage' = "json"
  /\ output' = FileManager_unflattenTranslations(input)
  /\ UNCHANGED <<adapter, store, idCounter, clock, autoExport, messageFiles,
                 last, input>>

ImportJson ==
  /\ stage = "json"
  /\ stage' = "decoded"
  /\ output' = FileManager_importFromJSON(output)
  /\ UNCHANGED <<adapter, store, idCounter, clock, autoExport, messageFiles,
                 last, input>>

JsonNext == ExportJson \/ ImportJson

SpecJson == JsonInit /\ [][JsonNext]_vars

\* the non-empty values of a record in the supported locales
SupportedValues(translation) ==
  [l \in AllLocales |->
     IF l \in SeqToSet(supportedLocales) /\ Truthy(translation.translations[l])
     THEN translation.translations[l] ELSE Undefined]

Exportable(translation) ==
  \E l \in AllLocales : SupportedValues(translation)[l] # Undefined

\* C8: importing the JSON exported for L yields exactly one record for each
\* key of L that has a non-empty value in a supported locale, carrying
\* exactly those values, and no other record.
C8_JsonRoundTrip ==
  stage = "decoded" =>
    /\ output.ok
    /\ KeysDistinct(output.translations)
    /\ {[key |-> output.translations[i].key,
         translations |-> output.translations[i].translations] :
           i \in 1..Len(output.translations)}
       = {[key |-> input[i].key, translations |-> SupportedValues(input[i])] :
            i \in {j \in 1..Len(input) : Exportable(input[j])}}

----------------------------------------------------------------------------
(* FileManager file access and the StandaloneAPI facade.  Every facade     *)
(* operation maps the adapter's records to a result [ok, err, recs, ret,   *)
(* exported, creates]: recs is what the adapter holds when the call has    *)
(* settled, exported whether the locale files were written, creates how    *)
(* many times storage.create was called.                                   *)

\* id: `${Date.now()}-${random}`, timestamps of the load
RECURSIVE StampLoaded(_, _, _)
StampLoaded(translations, now, i) ==
  IF i > Len(translations) THEN <<>>
  ELSE <<[translations[i] EXCEPT !.id = FileId(i), !.createdAt = now,
                                 !.updatedAt = now]>>
       \o StampLoaded(translations, now, i + 1)

\* files: the nested objects served as <messagesPath>/<locale>.json, for
\* the locales whose file exists
FileManager_loadTranslations(files, now) ==
  StampLoaded(ImportLocales(<<>>, files, supportedLocales), now, 1)

FileManager_importTranslations(file) ==
  IF file.ext = "json" THEN FileManager_importFromJSON(file.data)
  ELSE IF file.ext = "csv" THEN FileManager_importFromCSV(file.text)
       ELSE ParseError("Unsupported file format. Use JSON or CSV.")

\* StandaloneAPI.loadTranslations: the snapshot, and what storage holds
\* afterwards (an empty storage is filled from the locale files)
loadTranslations(kind, recs, files, now) ==
  LET translations == storage_load(kind, recs)
  IN  IF Len(translations) = 0
      THEN LET fromFiles == FileManager_loadTranslations(files, now)
           IN  [translations |-> fromFiles,
                recs |-> IF Len(fromFiles) > 0
                         THEN storage_save(kind, recs, fromFiles).recs
                         ELSE recs]
      ELSE [translations |-> translations, recs |-> recs]

FacadeOk(recs, ret, exported, creates) ==
  [ok |-> TRUE, err |-> "", recs |-> recs, ret |-> ret,
   exported |-> exported, creates |-> creates, counts |-> NoCounts]

FacadeFail(recs, err, creates) ==
  [ok |-> FALSE, err |-> err, recs |-> recs, ret |-> NoRecord,
   exported |-> FALSE, creates |-> creates, counts |-> NoCounts]

\* if (this.autoExport) await this.exportToFiles(): the export reads the
\* snapshot through loadTranslations
AfterAutoExport(auto, kind, recs, files, now) ==
  IF auto THEN loadTranslations(kind, recs, files, now).recs ELSE recs

\* existing.find(t => t.key === translation.key)
HasKey(existing, key) == \E i \in 1..Len(existing) : existing[i].key = key

\* exportToFiles: the snapshot is loaded and handed to
\* FileManager.saveTranslations, which rethrows what the download of a locale
\* file throws; saves tells whether the downloads go through
exportToFiles(kind, recs, files, now, saves) ==
  LET loaded == loadTranslations(kind, recs, files, now)
  IN  IF saves THEN Ok(loaded.recs, NoRecord) ELSE Fail(loaded.recs, "save failed")

\* the export swallowed: the call resolves although the download threw
createTranslation_swallow(kind, recs, counter, files, auto, translation, now, saves) ==
  LET loaded == loadTranslations(kind, recs, files, now)
  IN  IF HasKey(loaded.translations, translation.key)
      THEN FacadeFail(loaded.recs, "already exists", 0)
      ELSE LET created == storage_create(kind, loaded.recs, counter, translation, now)
           IN  IF ~created.ok THEN FacadeFail(created.recs, created.err, 1)
               ELSE FacadeOk(AfterAutoExport(auto, kind, created.recs, files, now),
                             created.ret, auto, 1)

createTranslation(kind, recs, counter, files, auto, translation, now, saves) ==
  LET loaded == loadTranslations(kind, recs, files, now)
  IN  IF HasKey(loaded.translations, translation.key)
      THEN FacadeFail(loaded.recs, "already exists", 0)
      ELSE LET created == storage_create(kind, loaded.recs, counter, translation, now)
               exported == exportToFiles(kind, created.recs, files, now, saves)
           IN  IF ~created.ok THEN FacadeFail(created.recs, created.err, 1)
               ELSE IF ~auto THEN FacadeOk(created.recs, created.ret, FALSE, 1)
               ELSE IF ~exported.ok THEN FacadeFail(exported.recs, exported.err, 1)
               ELSE FacadeOk(exported.recs, created.ret, TRUE, 1)

updateTranslation(kind, recs, files, auto, id, updates, now, saves) ==
  LET updated == storage_update(kind, recs, id, updates, now)
      exported == exportToFiles(kind, updated.recs, files, now, saves)
  IN  IF ~updated.ok THEN FacadeFail(updated.recs, updated.err, 0)
      ELSE IF ~auto THEN FacadeOk(updated.recs, updated.ret, FALSE, 0)
      ELSE IF ~exported.ok THEN FacadeFail(exported.recs, exported.err, 0)
      ELSE FacadeOk(exported.recs, updated.ret, TRUE, 0)

deleteTranslation(kind, recs, files, auto, id, now) ==
  LET deleted == storage_delete(kind, recs, id)
  IN  IF ~deleted.ok THEN FacadeFail(deleted.recs, deleted.err, 0)
      ELSE FacadeOk(AfterAutoExport(auto, kind, deleted.recs, files, now),
                    NoRecord, auto, 0)

\* the for loop of bulkDeleteTranslations; failAt is the position in ids of
\* the delete the adapter's store rejects (0: none does)
RECURSIVE DeleteEach(_, _, _, _)
DeleteEach(kind, recs, ids, failAt) ==
  IF ids = <<>> THEN Ok(recs, NoRecord)
  ELSE LET deleted == IF failAt = 1 THEN Fail(recs, "delete failed")
                      ELSE storage_delete(kind, recs, Head(ids))
       IN  IF deleted.ok
           THEN DeleteEach(kind, deleted.recs, Tail(ids),
                           IF failAt = 0 THEN 0 ELSE failAt - 1)
           ELSE deleted

bulkDeleteTranslations(kind, recs, files, auto, ids, now, failAt) ==
  LET deleted == DeleteEach(kind, recs, ids, failAt)
  IN  IF ~deleted.ok THEN FacadeFail(deleted.recs, deleted.err, 0)
      ELSE FacadeOk(AfterAutoExport(auto, kind, deleted.recs, files, now),
                    NoRecord, auto, 0)

\* the loop without its inner try/catch: the first failing record ends it
RECURSIVE ImportEach_abort(_, _, _, _, _, _, _)
ImportEach_abort(kind, acc, counter, existing, parsed, now, dt) ==
  IF parsed = <<>> THEN acc
  ELSE LET translation == Head(parsed)
           step ==
             IF HasKey(existing, translation.key)
             THEN LET existingTranslation ==
                        existing[CHOOSE i \in 1..Len(existing) :
                                   /\ existing[i].key = translation.key
                                   /\ \A j \in 1..(i - 1) :
                                        existing[j].key # translation.key]
                      updated ==
                        storage_update(kind, acc.recs, existingTranslation.id,
                          [NoUpdates EXCEPT
                             !.has = {"translations"},
                             !.translations =
                                SpreadTranslations(existingTranslation.translations,
                                                   translation.translations)],
                          now)
                  IN  IF updated.ok
                      THEN [acc EXCEPT !.recs = updated.recs,
                                       !.updated = acc.updated + 1]
                      ELSE [acc EXCEPT !.errors = acc.errors + 1]
             ELSE LET created ==
                        storage_create(kind, acc.recs, counter + acc.creates,
                          [hasId |-> FALSE, id |-> NoId, key |-> translation.key,
                           translations |-> translation.translations],
                          now)
                  IN  IF created.ok
                      THEN [acc EXCEPT !.recs = created.recs,
                                       !.imported = acc.imported + 1,
                                       !.creates = acc.creates + 1]
                      ELSE [acc EXCEPT !.errors = acc.errors + 1,
                                       !.creates = acc.creates + 1]
       IN  IF step.errors > acc.errors THEN step
           ELSE ImportEach_abort(kind, step, counter, existing, Tail(parsed),
                                 now + dt, dt)

\* the for loop of importTranslations; existing is the snapshot taken
\* before the loop, acc = [recs, imported, updated, errors, creates]
RECURSIVE ImportEach(_, _, _, _, _, _, _)
ImportEach(kind, acc, counter, existing, parsed, now, dt) ==
  IF parsed = <<>> THEN acc
  ELSE LET translation == Head(parsed)
           step ==
             IF HasKey(existing, translation.key)
             THEN LET existingTranslation ==
                        existing[CHOOSE i \in 1..Len(existing) :
                                   /\ existing[i].key = translation.key
                                   /\ \A j \in 1..(i - 1) :
                                        existing[j].key # translation.key]
                      updated ==
                        storage_update(kind, acc.recs, existingTranslation.id,
                          [NoUpdates EXCEPT
                             !.has = {"translations"},
                             !.translations =
                                SpreadTranslations(existingTranslation.translations,
                                                   translation.translations)],
                          now)
                  IN  IF updated.ok
                      THEN [acc EXCEPT !.recs = updated.recs,
                                       !.updated = acc.updated + 1]
                      ELSE [acc EXCEPT !.errors = acc.errors + 1]
             ELSE LET created ==
                        storage_create(kind, acc.recs, counter + acc.creates,
                          [hasId |-> FALSE, id |-> NoId, key |-> translation.key,
                           translations |-> translation.translations],
                          now)
                  IN  IF created.ok
                      THEN [acc EXCEPT !.recs = created.recs,
                                       !.imported = acc.imported + 1,
                                       !.creates = acc.creates + 1]
                      ELSE [acc EXCEPT !.errors = acc.errors + 1,
                                       !.creates = acc.creates + 1]
       IN  ImportEach(kind, step, counter, existing, Tail(parsed), now + dt, dt)

\* Date.now() when the loop of importTranslations is through
NowAfterImport(file, now, dt) ==
  LET parsed == FileManager_importTranslations(file)
  IN  IF parsed.ok /\ Len(parsed.translations) > 1
      THEN now + dt * (Len(parsed.translations) - 1)
      ELSE now

\* dt: how far Date.now() moves from one record of the file to the next
importTranslations(kind, recs, counter, files, auto, file, now, dt) ==
  LET parsed == FileManager_importTranslations(file)
  IN  IF ~parsed.ok THEN FacadeFail(recs, "Import failed", 0)
      ELSE LET loaded == loadTranslations(kind, recs, files, now)
               done == ImportEach(kind,
                                  [recs |-> loaded.recs, imported |-> 0,
                                   updated |-> 0, errors |-> 0, creates |-> 0],
                                  counter, loaded.translations,
                                  parsed.translations, now, dt)
           IN  [FacadeOk(AfterAutoExport(auto, kind, done.recs, files,
                                          NowAfterImport(file, now, dt)),
                         NoRecord, auto, done.creates)
                  EXCEPT !.counts = [imported |-> done.imported,
                                     updated |-> done.updated,
                                     errors |-> done.errors]]

\* exportToBlob: reads the snapshot, writes no file
exportTranslations(kind, recs, files, now) ==
  FacadeOk(loadTranslations(kind, recs, files, now).recs, NoRecord, FALSE, 0)

clearAllTranslations(kind, recs, files, auto, now) ==
  LET saved == storage_save(kind, recs, <<>>)
  IN  IF ~saved.ok THEN FacadeFail(saved.recs, saved.err, 0)
      ELSE FacadeOk(AfterAutoExport(auto, kind, saved.recs, files, now),
                    NoRecord, auto, 0)

\* backup: the parsed file; hasTranslations says whether it has a
\* translations array
restoreFromBackup(kind, recs, files, auto, backup, now) ==
  IF ~backup.hasTranslations THEN FacadeFail(recs, "Invalid backup file format", 0)
  ELSE LET saved == storage_save(kind, recs, backup.translations)
       IN  IF ~saved.ok THEN FacadeFail(saved.recs, saved.err, 0)
           ELSE FacadeOk(AfterAutoExport(auto, kind, saved.recs, files, now),
                         NoRecord, auto, 0)

(* The StandaloneAPI facade in use: a host application constructs it with  *)
(* one adapter, the autoExport option and the locale files its server      *)
(* offers, and calls its operations one after the other.                   *)

FileRecord(key, en, ar) ==
  [id |-> NoId, key |-> key, translations |-> Tr(en, ar),
   createdAt |-> 0, updatedAt |-> 0]

\* what <messagesPath>/<locale>.json serve: nothing, or one key "a"
FacadeFiles ==
  {<<>>, FileManager_unflattenTranslations(<<FileRecord(<<"a">>, <<"x">>, Undefined)>>)}

FacadeCreateArgs ==
  [hasId : {FALSE}, id : {NoId}, key : {<<"a">>, <<"b">>},
   translations : {Tr(<<"x">>, Undefined)}]

FacadeUpdates ==
  {[NoUpdates EXCEPT !.has = {"translations"},
                     !.translations = Tr(Undefined, <<"y">>)],
   [NoUpdates EXCEPT !.has = {"key"}, !.key = <<"a">>]}

\* the id lists bulkDeleteTranslations is called with
BulkIds(recs) == {<<i, j>> : i \in Ids(recs), j \in CallIds(recs)} \cup {<<UnknownId>>}

\* import files: a CSV with the key "b" in two rows, a CSV without the Key
\* column, a JSON with the key "a", a file of another type
ImportFiles ==
  {[ext |-> "csv", data |-> <<>>,
    text |-> FileManager_exportAsCSV(<<FileRecord(<<"b">>, <<"x">>, Undefined),
                                       FileRecord(<<"b">>, Undefined, <<"y">>)>>)],
   [ext |-> "csv", data |-> <<>>, text |-> <<"x">>],
   [ext |-> "json", text |-> <<>>,
    data |-> FileManager_unflattenTranslations(
               <<FileRecord(<<"a">>, Undefined, <<"y">>)>>)],
   [ext |-> "txt", data |-> <<>>, text |-> <<>>]}

\* backup files: one without a translations array, one with one record, one
\* whose two records carry the same key
BackupFiles ==
  {[hasTranslations |-> FALSE, translations |-> <<>>],
   [hasTranslations |-> TRUE, translations |-> <<SavedRecord(NumId(1), <<"a">>)>>],
   [hasTranslations |-> TRUE,
    translations |-> <<SavedRecord(NumId(1), <<"a">>), SavedRecord(StrId(1), <<"a">>)>>]}

Init ==
  /\ adapter \in Adapters
  /\ store = <<>>
  /\ idCounter = 1
  /\ clock = 0
  /\ autoExport \in BOOLEAN
  /\ messageFiles \in FacadeFiles
  /\ last = NoCall
  /\ Idle

\* the call has settled with outcome res; last.n counts the calls made
Settled(op, id, res) ==
  /\ Len(res.recs) <= MaxRecords
  /\ last.n < MaxCalls
  /\ store' = res.recs
  /\ idCounter' = IF adapter = "memory" THEN idCounter + res.creates ELSE idCounter
  /\ idCounter' <= MaxIdCounter
  /\ last' = [op |-> op, ok |-> res.ok, err |-> res.err, id |-> id,
              ret |-> res.ret, exported |-> res.exported, counts |-> res.counts,
              n |-> last.n + 1]
  /\ UNCHANGED <<adapter, autoExport, messageFiles, input, stage, output>>

\* saves: whether the downloads of an auto-export go through
CreateTranslation(translation, saves) ==
  /\ Settled("createTranslation", NoId,
             createTranslation(adapter, store, idCounter, messageFiles,
                               autoExport, translation, clock, saves))
  /\ UNCHANGED clock

UpdateTranslation(id, updates, saves) ==
  /\ Settled("updateTranslation", id,
             updateTranslation(adapter, store, messageFiles, autoExport,
                               id, updates, clock, saves))
  /\ UNCHANGED clock

DeleteTranslation(id) ==
  /\ Settled("deleteTranslation", id,
             deleteTranslation(adapter, store, messageFiles, autoExport, id, clock))
  /\ UNCHANGED clock

\* failAt: the position of the delete that the adapter's store rejects
BulkDeleteTranslations(ids, failAt) ==
  /\ Settled("bulkDeleteTranslations", NoId,
             bulkDeleteTranslations(adapter, store, messageFiles, autoExport,
                                    ids, clock, failAt))
  /\ UNCHANGED clock

\* Date.now() moves by dt from one record of the file to the next
ImportTranslations(file, dt) ==
  LET res == importTranslations(adapter, store, idCounter, messageFiles,
                                autoExport, file, clock, dt)
  IN  /\ Settled("importTranslations", NoId, res)
      /\ clock' = NowAfterImport(file, clock, dt)
      /\ clock' <= MaxClock

ExportTranslations ==
  /\ Settled("exportTranslations", NoId,
             exportTranslations(adapter, store, messageFiles, clock))
  /\ UNCHANGED clock

ClearAllTranslations ==
  /\ Settled("clearAllTranslations", NoId,
             clearAllTranslations(adapter, store, messageFiles, autoExport, clock))
  /\ UNCHANGED clock

RestoreFromBackup(backup) ==
  /\ Settled("restoreFromBackup", NoId,
             restoreFromBackup(adapter, store, messageFiles, autoExport,
                               backup, clock))
  /\ UNCHANGED clock

\* a host application whose downloads go through
Next ==
  \/ Tick
  \/ \E translation \in FacadeCreateArgs : CreateTranslation(translation, TRUE)
  \/ \E id \in CallIds(store), updates \in FacadeUpdates :
       UpdateTranslation(id, updates, TRUE)
  \/ \E id \in CallIds(store) : DeleteTranslation(id)
  \/ \E ids \in BulkIds(store) : BulkDeleteTranslations(ids, 0)
  \/ \E file \in ImportFiles, dt \in {0, 1} : ImportTranslations(file, dt)
  \/ ExportTranslations
  \/ ClearAllTranslations
  \/ \E backup \in BackupFiles : RestoreFromBackup(backup)

Spec == Init /\ [][Next]_vars


----------------------------------------------------------------------------
(* StandaloneAPI.getTranslations: search filter, sort by key, pagination.  *)

\* String.prototype.toLowerCase on the letters in use
toLowerCase(s) ==
  [i \in 1..Len(s) |->
     IF s[i] = "A" THEN "a" ELSE IF s[i] = "B" THEN "b"
     ELSE IF s[i] = "X" THEN "x" ELSE s[i]]

\* String.prototype.includes
includes(s, sub) ==
  \E i \in 0..(Len(s) - Len(sub)) : SubSeq(s, i + 1, i + Len(sub)) = sub

\* collation weights of a character: the letter first, its case second;
\* punctuation sorts before every letter, lower case before upper case
Primary(c) ==
  IF c = "." THEN 0
  ELSE IF c \in {"a", "A"} THEN 1
  ELSE IF c \in {"b", "B"} THEN 2
  ELSE 3

Tertiary(c) == IF c \in {"A", "B", "X"} THEN 1 ELSE 0

\* first difference of two weight sequences: -1, 0 or 1
RECURSIVE CompareWeights(_, _)
CompareWeights(u, v) ==
  IF u = <<>> THEN (IF v = <<>> THEN 0 ELSE -1)
  ELSE IF v = <<>> THEN 1
  ELSE IF Head(u) < Head(v) THEN -1
  ELSE IF Head(u) > Head(v) THEN 1
  ELSE CompareWeights(Tail(u), Tail(v))

\* String.prototype.localeCompare
localeCompare(a, b) ==
  LET primary == CompareWeights([i \in 1..Len(a) |-> Primary(a[i])],
                                [i \in 1..Len(b) |-> Primary(b[i])])
  IN  IF primary # 0 THEN primary
      ELSE CompareWeights([i \in 1..Len(a) |-> Tertiary(a[i])],
                          [i \in 1..Len(b) |-> Tertiary(b[i])])

\* one step of the stable sort: t goes behind everything not greater
RECURSIVE InsertByKey(_, _)
InsertByKey(sorted, t) ==
  IF sorted = <<>> THEN <<t>>
  ELSE IF localeCompare(Head(sorted).key, t.key) <= 0
       THEN <<Head(sorted)>> \o InsertByKey(Tail(sorted), t)
       ELSE <<t>> \o sorted

\* translations.sort((a, b) => a.key.localeCompare(b.key))
RECURSIVE sortByKey(_)
sortByKey(translations) ==
  IF translations = <<>> THEN <<>>
  ELSE InsertByKey(sortByKey(SubSeq(translations, 1, Len(translations) - 1)),
                   translations[Len(translations)])

\* Array.prototype.slice(start, end) with start, end >= 0
slice(arr, start, end) ==
  LET from == IF start > Len(arr) THEN Len(arr) ELSE start
      to == IF end > Len(arr) THEN Len(arr) ELSE end
  IN  IF from >= to THEN <<>> ELSE SubSeq(arr, from + 1, to)

\* Math.ceil(n / p) for n >= 0, p >= 1
Math_ceil(n, p) == (n + p - 1) \div p

\* the filter callback of getTranslations
MatchesSearch(translation, searchLower) ==
  \/ includes(toLowerCase(translation.key), searchLower)
  \/ \E l \in AllLocales :
       /\ translation.translations[l] # Undefined
       /\ includes(toLowerCase(translation.translations[l]), searchLower)

\* the first page is taken for the second: startIndex = page * pageSize
getTranslations_zero_based(translations, page, pageSize, search) ==
  LET filtered ==
        IF search # EmptyStr
        THEN SelectSeq(translations,
                       LAMBDA t : MatchesSearch(t, toLowerCase(search)))
        ELSE translations
      sorted == sortByKey(filtered)
      startIndex == page * pageSize
      endIndex == startIndex + pageSize
  IN  [results |-> slice(sorted, startIndex, endIndex),
       count |-> Len(sorted),
       totalPages |-> Math_ceil(Len(sorted), pageSize),
       page |-> page,
       pageSize |-> pageSize]

\* translations: what loadTranslations returned
getTranslations(translations, page, pageSize, search) ==
  LET filtered ==
        IF search # EmptyStr
        THEN SelectSeq(translations,
                       LAMBDA t : MatchesSearch(t, toLowerCase(search)))
        ELSE translations
      sorted == sortByKey(filtered)
      startIndex == (page - 1) * pageSize
      endIndex == startIndex + pageSize
  IN  [results |-> slice(sorted, startIndex, endIndex),
       count |-> Len(sorted),
       totalPages |-> Math_ceil(Len(sorted), pageSize),
       page |-> page,
       pageSize |-> pageSize]

(* Queries on a store that earlier calls have filled *)

QueryRecord(n, key, en, ar) ==
  [id |-> StrId(n), key |-> key, translations |-> Tr(en, ar),
   createdAt |-> 0, updatedAt |-> 0]

QueryRecords ==
  {QueryRecord(1, <<"a">>, <<"x">>, Undefined),
   QueryRecord(2, <<"B">>, <<"A">>, <<" ">>),
   QueryRecord(3, <<"a", ".", "b">>, EmptyStr, <<"y">>),
   QueryRecord(4, <<"b">>, <<"X", "b">>, <<"y">>)}

QueryStores == UNION {[1..n -> QueryRecords] : n \in 0..MaxQueryRecords}

Searches == {EmptyStr, <<"a">>, <<"X">>}

QueryInit ==
  /\ adapter = "local"
  /\ store \in QueryStores
  /\ idCounter = 1
  /\ clock = 0
  /\ autoExport = FALSE
  /\ messageFiles \in FacadeFiles
  /\ last = NoCall
  /\ Idle

GetTranslations(page, pageSize, search) ==
  LET loaded == loadTranslations(adapter, store, messageFiles, clock)
  IN  /\ store' = loaded.recs
      /\ input' = [page |-> page, pageSize |-> pageSize, search |-> search]
      /\ stage' = "page"
      /\ output' = getTranslations(loaded.translations, page, pageSize, search)
      /\ UNCHANGED <<adapter, idCounter, clock, autoExport, messageFiles, last>>

QueryNext ==
  \E page \in 1..MaxPage, pageSize \in 1..MaxPageSize, search \in Searches :
    GetTranslations(page, pageSize, search)

SpecQuery == QueryInit /\ [][QueryNext]_vars

\* the records of the snapshot that the search keeps: some stretch of the
\* key or of a locale value is the search term up to case
Kept(search) ==
  {i \in 1..Len(store) :
     \/ search = EmptyStr
     \/ \E a \in 1..Len(store[i].key), b \in 1..Len(store[i].key) :
          toLowerCase(SubSeq(store[i].key, a, b)) = toLowerCase(search)
     \/ \E l \in AllLocales :
          /\ store[i].translations[l] # Undefined
          /\ \E a \in 1..Len(store[i].translations[l]),
                b \in 1..Len(store[i].translations[l]) :
               toLowerCase(SubSeq(store[i].translations[l], a, b))
                 = toLowerCase(search)}

\* where record i of the snapshot stands in the kept records sorted by key
\* (records with equal keys stay in snapshot order)
RankByKey(search, i) ==
  1 + Cardinality({j \in Kept(search) :
                     \/ localeCompare(store[j].key, store[i].key) < 0
                     \/ localeCompare(store[j].key, store[i].key) = 0 /\ j < i})

SortedKept(search) ==
  [k \in 1..Cardinality(Kept(search)) |->
     store[CHOOSE i \in Kept(search) : RankByKey(search, i) = k]]

RECURSIVE PagesUpTo(_, _, _)
PagesUpTo(p, pageSize, search) ==
  IF p = 0 THEN <<>>
  ELSE PagesUpTo(p - 1, pageSize, search)
       \o getTranslations(store, p, pageSize, search).results

\* C9: getTranslations returns the slice [(page-1)*pageSize, page*pageSize)
\* of the snapshot's records that match the search, sorted by key, with
\* count the number of matching records and totalPages = ceil(count /
\* pageSize); pages 1..totalPages put end to end are the sorted matching
\* records, and a page beyond totalPages is empty.
C9_GetTranslations ==
  stage = "page" =>
    LET count == Cardinality(Kept(input.search))
        first == (input.page - 1) * input.pageSize
    IN  /\ output.count = count
        /\ output.totalPages * input.pageSize >= count
        /\ (output.totalPages - 1) * input.pageSize < count
        /\ Len(output.results) =
             IF count - first <= 0 THEN 0
             ELSE IF count - first < input.pageSize THEN count - first
             ELSE input.pageSize
        /\ \A k \in 1..Len(output.results) :
             output.results[k] = SortedKept(input.search)[first + k]
        /\ (input.page > output.totalPages => output.results = <<>>)
        /\ PagesUpTo(output.totalPages, input.pageSize, input.search)
             = SortedKept(input.search)

C9_Witness ==
  /\ stage = "page"
  /\ input.search = <<"a">>
  /\ input.page = 2
  /\ output.count = 2
  /\ output.count < Len(store)
  /\ output.totalPages = 2
  /\ Len(output.results) = 1

----------------------------------------------------------------------------
(* Statistics: generateStats (utils) and StandaloneAPI.getStatistics run   *)
(* the same loop.  The percentage is computed in IEEE 754 double           *)
(* precision: a positive double is [e, m] with m its Precision significant *)
(* bits, first bit 1, and value m[1]*2^e + m[2]*2^(e-1) + ...              *)

Precision == 53

Zero == [e |-> 0, m |-> <<>>]

\* m + 1 in the last place
Increment(x) ==
  IF \A i \in 1..Len(x.m) : x.m[i] = 1
  THEN [e |-> x.e + 1, m |-> [i \in 1..Len(x.m) |-> IF i = 1 THEN 1 ELSE 0]]
  ELSE LET k == CHOOSE i \in 1..Len(x.m) :
                  x.m[i] = 0 /\ \A j \in (i + 1)..Len(x.m) : x.m[j] = 1
       IN  [e |-> x.e,
            m |-> [i \in 1..Len(x.m) |->
                     IF i < k THEN x.m[i] ELSE IF i = k THEN 1 ELSE 0]]

\* round to nearest, ties to even: bits are the exact leading bits, sticky
\* says whether anything non-zero follows them
RoundNearestEven(bits, sticky, e) ==
  IF Len(bits) <= Precision
  THEN [e |-> e,
        m |-> bits \o [i \in 1..(Precision - Len(bits)) |-> 0]]
  ELSE LET kept == [e |-> e, m |-> SubSeq(bits, 1, Precision)]
           rest == sticky \/ \E i \in (Precision + 2)..Len(bits) : bits[i] = 1
       IN  IF bits[Precision + 1] = 1 /\ (rest \/ bits[Precision] = 1)
           THEN Increment(kept)
           ELSE kept

RECURSIVE Pow2(_)
Pow2(k) == IF k = 0 THEN 1 ELSE 2 * Pow2(k - 1)

\* the arithmetic below works on Limb bits at a time
Limb == 9

\* v < 2^Limb as Limb bits
LimbBits(v) == [i \in 1..Limb |-> (v \div Pow2(Limb - i)) % 2]

\* the next k limbs of bits of the quotient r / n, r < n, and the remainder
RECURSIVE QuotientBits(_, _, _)
QuotientBits(r, n, k) ==
  IF k = 0 THEN [bits |-> <<>>, r |-> r]
  ELSE LET more == QuotientBits((r * Pow2(Limb)) % n, n, k - 1)
       IN  [bits |-> LimbBits((r * Pow2(Limb)) \div n) \o more.bits,
            r |-> more.r]

\* how often t must be doubled to reach n
RECURSIVE LeadShift(_, _)
LeadShift(t, n) == IF t >= n THEN 0 ELSE 1 + LeadShift(2 * t, n)

\* translatedCount / translations.length, 0 <= t <= n, n > 0
Divide(t, n) ==
  IF t = 0 THEN Zero
  ELSE LET k == LeadShift(t, n)
           q == QuotientBits(t * Pow2(k) - n, n, Precision \div Limb + 1)
       IN  RoundNearestEven(<<1>> \o q.bits, q.r # 0, 0 - k)

RECURSIVE BitsToInt(_)
BitsToInt(bits) ==
  IF bits = <<>> THEN 0
  ELSE 2 * BitsToInt(SubSeq(bits, 1, Len(bits) - 1)) + bits[Len(bits)]

\* the limbs of a bit string, last limb first
Limbs(bits) ==
  LET count == (Len(bits) + Limb - 1) \div Limb
      padded == [i \in 1..(count * Limb - Len(bits)) |-> 0] \o bits
  IN  [j \in 1..count |->
         BitsToInt(SubSeq(padded, (count - j) * Limb + 1, (count - j + 1) * Limb))]

\* limbs (last limb first) times c, as bits
RECURSIVE MulSmall(_, _, _)
MulSmall(limbs, c, carry) ==
  IF limbs = <<>>
  THEN (IF carry = 0 THEN <<>>
        ELSE MulSmall(limbs, c, carry \div Pow2(Limb)) \o LimbBits(carry % Pow2(Limb)))
  ELSE MulSmall(Tail(limbs), c, (Head(limbs) * c + carry) \div Pow2(Limb))
       \o LimbBits((Head(limbs) * c + carry) % Pow2(Limb))

\* without the zeros in front
Significant(bits) ==
  SubSeq(bits, CHOOSE i \in 1..Len(bits) :
                 bits[i] = 1 /\ \A j \in 1..(i - 1) : bits[j] = 0,
         Len(bits))

\* x * c for an integer c >= 1
Times(x, c) ==
  IF x = Zero THEN Zero
  ELSE LET product == Significant(MulSmall(Limbs(x.m), c, 0))
       IN  RoundNearestEven(product, FALSE, x.e + Len(product) - Len(x.m))

\* Math.round of a double >= 0: the nearest integer, halves go up
Math_round(x) ==
  IF x = Zero \/ x.e < -1 THEN 0
  ELSE (IF x.e < 0 THEN 0 ELSE BitsToInt(SubSeq(x.m, 1, x.e + 1)))
       + x.m[x.e + 2]

\* value && value.trim()
IsTranslated(translation, locale) ==
  /\ Truthy(translation.translations[locale])
  /\ trim(translation.translations[locale]) # EmptyStr

\* the statistics of one locale
LocaleStats(translations, locale) ==
  LET translatedCount ==
        Len(SelectSeq(translations, LAMBDA t : IsTranslated(t, locale)))
      missing == SelectSeq(translations, LAMBDA t : ~IsTranslated(t, locale))
  IN  [translatedKeys |-> translatedCount,
       completionPercentage |->
         IF Len(translations) > 0
         THEN Math_round(Times(Divide(translatedCount, Len(translations)), 100))
         ELSE 0,
       missingTranslations |-> [i \in 1..Len(missing) |-> missing[i].key]]

generateStats(translations, locales) ==
  [totalKeys |-> Len(translations),
   locales |-> [l \in SeqToSet(locales) |-> LocaleStats(translations, l)]]

(* Statistics of record lists of every size and degree of completion *)

\* values that count as not translated
Blank(i) ==
  IF i % 3 = 0 THEN EmptyStr ELSE IF i % 3 = 1 THEN <<" ">> ELSE Undefined

\* n records of which the first t have an en value and the others an ar one
StatsList(t, n) ==
  [i \in 1..n |->
     [id |-> NumId(i), key |-> <<"k", ToString(i)>>,
      translations |-> IF i <= t THEN Tr(<<"x">>, Blank(i))
                       ELSE Tr(Blank(i), <<"y">>),
      createdAt |-> 0, updatedAt |-> 0]]

StatsInit ==
  /\ \E n \in 0..MaxTotalKeys, t \in 0..MaxTotalKeys :
       t <= n /\ input = StatsList(t, n)
  /\ stage = "list"
  /\ output = <<>>
  /\ adapter = "memory"
  /\ store = <<>>
  /\ idCounter = 1
  /\ clock = 0
  /\ autoExport = FALSE
  /\ messageFiles = <<>>
  /\ last = NoCall

GenerateStats ==
  /\ stage = "list"
  /\ stage' = "stats"
  /\ output' = generateStats(input, supportedLocales)
  /\ UNCHANGED <<adapter, store, idCounter, clock, autoExport, messageFiles,
                 last, input>>

StatsNext == GenerateStats

SpecStats == StatsInit /\ [][StatsNext]_vars

\* the records of the list whose value for the locale is a string that is
\* not empty after trimming
TranslatedIn(locale) ==
  {i \in 1..Len(input) :
     /\ input[i].translations[locale] # Undefined
     /\ \E k \in 1..Len(input[i].translations[locale]) :
          ~IsSpace(input[i].translations[locale][k])}

\* round(100 * t / n), halves up
RoundedPercent(t, n) == (200 * t + n) \div (2 * n)

\* the counts and the missing-keys list, without the percentage
StatsCounts ==
  stage = "stats" =>
    /\ output.totalKeys = Len(input)
    /\ \A l \in SeqToSet(supportedLocales) :
         /\ output.locales[l].translatedKeys = Cardinality(TranslatedIn(l))
         /\ Len(output.locales[l].missingTranslations)
              = Len(input) - Cardinality(TranslatedIn(l))
         /\ \A i \in 1..Len(input) :
              i \notin TranslatedIn(l) <=>
                \E k \in 1..Len(output.locales[l].missingTranslations) :
                  output.locales[l].missingTranslations[k] = input[i].key
         /\ (Len(input) = 0 => output.locales[l].completionPercentage = 0)
         /\ (Len(input) > 0 /\ Cardinality(TranslatedIn(l)) = Len(input)
               => output.locales[l].completionPercentage = 100)

\* C10: for every supported locale, translatedKeys is the number of records
\* whose value is non-empty after trimming, missingTranslations lists the
\* other records' keys, and completionPercentage is round(100 *
\* translatedKeys / totalKeys), 0 when there is no record and 100 when
\* every record is translated.
C10_Statistics ==
  stage = "stats" =>
    /\ StatsCounts
    /\ \A l \in SeqToSet(supportedLocales) :
         Len(input) > 0 =>
           output.locales[l].completionPercentage
             = RoundedPercent(Cardinality(TranslatedIn(l)), Len(input))

----------------------------------------------------------------------------
(* Facade contract *)

\* C1: in every state reached through completed StandaloneAPI calls, no two
\* stored records have the same key.
C1_KeysUnique ==
  \A i, j \in 1..Len(store) : i # j => store[i].key # store[j].key

\* the snapshot the facade works on at this moment
Snapshot == loadTranslations(adapter, store, messageFiles, clock).translations

\* C2: createTranslation with a key that is already in the collection fails
\* with the duplicate-key error and leaves the adapter's records exactly as
\* they were.
C2_DuplicateCreateLeavesStorage ==
  [][\A translation \in FacadeCreateArgs :
       (CreateTranslation(translation, TRUE) /\ HasKey(Snapshot, translation.key)) =>
         /\ ~last'.ok
         /\ last'.err = "already exists"
         /\ store' = store]_vars

\* C3: update with an id no stored record has fails with the not-found
\* error and leaves the record list unchanged, on every adapter and through
\* StandaloneAPI.updateTranslation, which then exports nothing.
C3_UpdateUnknownId ==
  [][\A id \in CallIds(store), updates \in FacadeUpdates :
       (UpdateTranslation(id, updates, TRUE) /\ id \notin Ids(store)) =>
         /\ ~storage_update(adapter, store, id, updates, clock).ok
         /\ storage_update(adapter, store, id, updates, clock).err
              = "Translation not found"
         /\ storage_update(adapter, store, id, updates, clock).recs = store
         /\ ~last'.ok
         /\ last'.err = "Translation not found"
         /\ ~last'.exported
         /\ store' = store]_vars

C3_Witness ==
  /\ last.op = "updateTranslation"
  /\ last.id = UnknownId
  /\ ~last.ok
  /\ last.err = "Translation not found"
  /\ autoExport
  /\ Len(store) >= 1

----------------------------------------------------------------------------
(* Adapter contract *)

\* the records of old whose id is not id, in their order
Positions(old, id) == {i \in 1..Len(old) : old[i].id # id}

Without(old, new, id) ==
  /\ Len(new) = Cardinality(Positions(old, id))
  /\ \A k \in 1..Len(new) :
       new[k] = old[CHOOSE i \in Positions(old, id) :
                      Cardinality({j \in Positions(old, id) : j <= i}) = k]

\* C4: delete(id) never throws; with an id no stored record has it leaves
\* the record list unchanged, with a stored id it removes the record of that
\* id and nothing else, and a second delete(id) changes nothing more.
C4_DeleteIdempotent ==
  [][\A id \in CallIds(store) :
       AdapterDelete(id) =>
         /\ last'.ok
         /\ (id \notin Ids(store) => store' = store)
         /\ id \notin Ids(store')
         /\ Without(store, store', id)
         /\ storage_delete(adapter, store', id).ok
         /\ storage_delete(adapter, store', id).recs = store']_vars

C4_Witness ==
  /\ last.op = "delete"
  /\ last.ok
  /\ last.id # UnknownId
  /\ last.id \notin Ids(store)
  /\ Len(store) >= 1

IdsUnique ==
  \A i, j \in 1..Len(store) : i # j => store[i].id # store[j].id

\* the id the adapter itself would assign at this moment
GeneratedId == IF adapter = "memory" THEN NumId(idCounter) ELSE StrId(clock)

\* C5: stored ids are pairwise distinct; create returns an id that no stored
\* record had and that the adapter generated (not the caller's); update
\* leaves the record's id as it was.
C5_IdsUniqueAndStable ==
  /\ []IdsUnique
  /\ [][/\ \A t \in CreateArgs :
             (AdapterCreate(t) /\ last'.ok) =>
               /\ last'.ret.id \notin Ids(store)
               /\ last'.ret.id = GeneratedId
        /\ \A id \in CallIds(store), u \in UpdateArgs :
             (AdapterUpdate(id, u) /\ last'.ok) =>
               /\ last'.ret.id = id
               /\ Ids(store') = Ids(store)]_vars

----------------------------------------------------------------------------
(* Imports into a store that already holds the key "a": the facade is      *)
(* constructed over an adapter that is empty or holds one record, and      *)
(* files are imported one after the other.                                 *)

\* the record the adapter holds when the facade is constructed over a
\* store that was filled earlier
HeldRecord(kind) ==
  [id |-> IF kind = "memory" THEN NumId(1) ELSE StrId(0),
   key |-> <<"a">>,
   translations |-> [Tr(<<"x">>, Undefined) EXCEPT !["fr"] = <<"z">>],
   createdAt |-> 0, updatedAt |-> 0]

\* files to merge: "a" in two rows that provide different locales, "b" in
\* two rows, "b" and "c" in one row each, a JSON with "a", another type
MergeFiles ==
  {[ext |-> "csv", data |-> <<>>,
    text |-> FileManager_exportAsCSV(<<FileRecord(<<"a">>, <<"p">>, Undefined),
                                       FileRecord(<<"a">>, Undefined, <<"y">>)>>)],
   [ext |-> "csv", data |-> <<>>,
    text |-> FileManager_exportAsCSV(<<FileRecord(<<"b">>, <<"x">>, Undefined),
                                       FileRecord(<<"b">>, Undefined, <<"y">>)>>)],
   [ext |-> "csv", data |-> <<>>,
    text |-> FileManager_exportAsCSV(<<FileRecord(<<"b">>, <<"x">>, Undefined),
                                       FileRecord(<<"c">>, Undefined, <<"y">>)>>)],
   [ext |-> "json", text |-> <<>>,
    data |-> FileManager_unflattenTranslations(
               <<FileRecord(<<"a">>, Undefined, <<"y">>)>>)],
   [ext |-> "txt", data |-> <<>>, text |-> <<>>]}

ImportInit ==
  /\ adapter \in Adapters
  /\ store \in {<<>>, <<HeldRecord(adapter)>>}
  /\ idCounter = Len(store) + 1
  /\ clock = 0
  /\ autoExport \in BOOLEAN
  /\ messageFiles \in FacadeFiles
  /\ last = NoCall
  /\ Idle

ImportNext ==
  \/ Tick
  \/ \E file \in MergeFiles, dt \in {0, 1} : ImportTranslations(file, dt)

SpecImport == ImportInit /\ [][ImportNext]_vars

\* what importTranslations parses from the file before its loop
ParsedOf(file) == FileManager_importTranslations(file)

\* the parsed records of the file that carry the key, in file order
OccurrencesOf(parsed, key) == SelectSeq(parsed, LAMBDA t : t.key = key)

\* each occurrence merged onto the result of the previous one
RECURSIVE MergedOnto(_, _)
MergedOnto(translations, occurrences) ==
  IF occurrences = <<>> THEN translations
  ELSE MergedOnto(SpreadTranslations(translations, Head(occurrences).translations),
                  Tail(occurrences))

\* C11: an import merges instead of overwriting: for every parsed record whose
\* key is already in the snapshot, the stored record afterwards holds the
\* imported value for each locale the file provides and its previous value for
\* every other locale, each occurrence of the key merging onto the result of
\* the previous one; the record is counted as updated and its updatedAt is the
\* time of the import.
C11_ImportMerges ==
  [][\A file \in MergeFiles, dt \in {0, 1} :
       (ImportTranslations(file, dt) /\ ParsedOf(file).ok) =>
         LET parsed == ParsedOf(file).translations
         IN  \A i \in 1..Len(Snapshot) :
               LET before == Snapshot[i]
                   occurrences == OccurrencesOf(parsed, before.key)
               IN  (occurrences # <<>> /\ Cardinality(Keys(Snapshot)) = Len(Snapshot)) =>
                     /\ last'.ok
                     /\ last'.counts.updated >= Len(occurrences)
                     /\ \E j \in 1..Len(store') :
                          /\ store'[j].id = before.id
                          /\ store'[j].translations =
                               MergedOnto(before.translations, occurrences)
                          /\ store'[j].updatedAt >= clock]_vars

\* the key "a" was stored with en "x" and the file's two rows for "a" gave en
\* "p" and then ar "y"
C11_TwoOccurrences ==
  /\ last.op = "importTranslations"
  /\ last.counts.updated = 2
  /\ \E j \in 1..Len(store) :
       store[j].key = <<"a">> /\ store[j].translations["ar"] = <<"y">>

\* the stored list holds a record with the key of t and t's value for every
\* locale t provides
Reflected(recs, t) ==
  \E j \in 1..Len(recs) :
    /\ recs[j].key = t.key
    /\ \A l \in AllLocales :
         t.translations[l] # Undefined => recs[j].translations[l] = t.translations[l]

----------------------------------------------------------------------------
(* Adapter contract: save and load *)

\* C13: save has full-replace semantics on every adapter: after save(L), L a
\* list with distinct ids, load() returns exactly the records of L and none of
\* the records stored before that are not in L; when save fails, load() returns
\* what it returned before (or all of L), never a mixture of old and new.
C13_SaveReplaces ==
  [][\A translations \in SaveLists :
       AdapterSave(translations) =>
         LET before == storage_load(adapter, store)
             after == storage_load(adapter, store')
             replaced == /\ SeqToSet(after) = SeqToSet(translations)
                         /\ Len(after) = Len(translations)
         IN  IF last'.ok THEN replaced ELSE (after = before \/ replaced)]_vars

\* a save failed over a store that held records, and they are still there
C13_FailedSaveKeepsOld ==
  /\ last.op = "save"
  /\ ~last.ok
  /\ store # <<>>

----------------------------------------------------------------------------
(* The three adapters side by side: store holds one stored list per        *)
(* adapter, every call is made on all three with the same arguments, and   *)
(* output holds what each adapter answered.  A call that names a record    *)
(* names, on each adapter, the id that adapter gave to the record with     *)
(* the key.                                                                *)

Answer(res) == [ok |-> res.ok, err |-> res.err, ret |-> res.ret]

NoAnswer == [k \in Adapters |-> Answer(Ok(<<>>, NoRecord))]

\* the id of the first stored record with the key, or an unknown id
IdOfKey(recs, key) ==
  IF HasKey(recs, key)
  THEN recs[CHOOSE i \in 1..Len(recs) :
              /\ recs[i].key = key
              /\ \A j \in 1..(i - 1) : recs[j].key # key].id
  ELSE UnknownId

\* the updates of the facade's callers, and one that carries a creation time
SideUpdates ==
  FacadeUpdates
  \cup {[NoUpdates EXCEPT !.has = {"createdAt"}, !.createdAt = MaxClock]}

SideInit ==
  /\ adapter = "all"
  /\ store = [k \in Adapters |-> <<>>]
  /\ idCounter = 1
  /\ clock = 0
  /\ autoExport = FALSE
  /\ messageFiles = <<>>
  /\ last = NoCall
  /\ input = <<>>
  /\ stage = "idle"
  /\ output = NoAnswer

\* every adapter has answered the call op with res[k]
SideSettled(op, res) ==
  /\ \A k \in Adapters : Len(res[k].recs) <= MaxRecords
  /\ last.n < MaxCalls
  /\ store' = [k \in Adapters |-> res[k].recs]
  /\ output' = [k \in Adapters |-> Answer(res[k])]
  /\ last' = [NoCall EXCEPT !.op = op, !.n = last.n + 1]
  /\ UNCHANGED <<adapter, clock, autoExport, messageFiles, input, stage>>

SideLoad ==
  /\ SideSettled("load", [k \in Adapters |->
                            Ok(store[k], NoRecord)])
  /\ \A k \in Adapters : storage_load(k, store[k]) = store[k]
  /\ UNCHANGED idCounter

SideSave(translations) ==
  /\ SideSettled("save", [k \in Adapters |->
                            storage_save(k, store[k], translations)])
  /\ UNCHANGED idCounter

SideCreate(translation) ==
  /\ idCounter < MaxIdCounter
  /\ SideSettled("create", [k \in Adapters |->
                              storage_create(k, store[k], idCounter,
                                             translation, clock)])
  /\ idCounter' = idCounter + 1

SideUpdate(key, updates) ==
  /\ SideSettled("update", [k \in Adapters |->
                              storage_update(k, store[k], IdOfKey(store[k], key),
                                             updates, clock)])
  /\ UNCHANGED idCounter

SideDelete(key) ==
  /\ SideSettled("delete", [k \in Adapters |->
                              storage_delete(k, store[k], IdOfKey(store[k], key))])
  /\ UNCHANGED idCounter

SideNext ==
  \/ Tick
  \/ SideLoad
  \/ \E translations \in SaveLists : SideSave(translations)
  \/ \E translation \in FacadeCreateArgs : SideCreate(translation)
  \/ \E key \in AdapterKeys, updates \in SideUpdates : SideUpdate(key, updates)
  \/ \E key \in AdapterKeys : SideDelete(key)

SpecSideBySide == SideInit /\ [][SideNext]_vars

\* a record without its id
WithoutId(t) == [t EXCEPT !.id = NoId]

\* the stored records without their ids, with the number of times each occurs
RecordsUpToId(recs) ==
  LET plain == {WithoutId(recs[i]) : i \in 1..Len(recs)}
  IN  [t \in plain |-> Cardinality({i \in 1..Len(recs) : WithoutId(recs[i]) = t})]

\* C14: the three adapters are observationally equivalent: on the same
\* sequence of load/save/create/update/delete calls from empty they succeed or
\* fail on the same calls with the same kind of error, create of a record whose
\* key is already stored included, and hold the same records up to the ids.
C14_AdaptersEquivalent ==
  \A k1, k2 \in Adapters :
    /\ output[k1].ok = output[k2].ok
    /\ output[k1].err = output[k2].err
    /\ WithoutId(output[k1].ret) = WithoutId(output[k2].ret)
    /\ RecordsUpToId(store[k1]) = RecordsUpToId(store[k2])

----------------------------------------------------------------------------
(* Facade contract: updates *)

\* C15: an update merges a partial translations patch: after
\* updateTranslation(id, {translations: P}) on an existing record the stored
\* record has P's value for every locale in P and its previous value for every
\* locale not in P.
C15_UpdateMergesPatch ==
  [][\A id \in CallIds(store), updates \in FacadeUpdates :
       (/\ UpdateTranslation(id, updates, TRUE)
        /\ "translations" \in updates.has
        /\ last'.ok) =>
         LET before == store[findIndex(store, id)]
             after == store'[findIndex(store', id)]
         IN  \A l \in AllLocales :
               after.translations[l] =
                 IF updates.translations[l] # Undefined
                 THEN updates.translations[l]
                 ELSE before.translations[l]]_vars

----------------------------------------------------------------------------
(* Adapter contract: timestamps *)

\* C16: timestamps follow the record lifecycle: createdAt is set by create and
\* is not changed by any later update, whatever fields the update carries;
\* every successful update sets updatedAt to the time of the update; and
\* updatedAt >= createdAt holds for every stored record.
C16_Timestamps ==
  [][/\ \A key \in AdapterKeys, updates \in SideUpdates, k \in Adapters :
          (SideUpdate(key, updates) /\ output'[k].ok) =>
            LET id == IdOfKey(store[k], key)
                before == store[k][findIndex(store[k], id)]
                after == store'[k][findIndex(store'[k], id)]
            IN  /\ after.createdAt = before.createdAt
                /\ after.updatedAt = clock
     /\ \A k \in Adapters :
          \A i \in 1..Len(store'[k]) :
            store'[k][i].updatedAt >= store'[k][i].createdAt]_vars

----------------------------------------------------------------------------
(* The facade with autoExport where the download of the locale files may   *)
(* throw (no document, a blocked download): create and update calls.       *)

ExportInit ==
  /\ adapter \in Adapters
  /\ store = <<>>
  /\ idCounter = 1
  /\ clock = 0
  /\ autoExport \in BOOLEAN
  /\ messageFiles \in FacadeFiles
  /\ last = NoCall
  /\ Idle

ExportNext ==
  \/ Tick
  \/ \E translation \in FacadeCreateArgs, saves \in BOOLEAN :
       CreateTranslation(translation, saves)
  \/ \E id \in CallIds(store), updates \in FacadeUpdates, saves \in BOOLEAN :
       UpdateTranslation(id, updates, saves)

SpecExport == ExportInit /\ [][ExportNext]_vars

\* C17: auto-export failures are surfaced: with autoExport on, when the file
\* export fails after the storage write of createTranslation or
\* updateTranslation succeeded, the call reports the failure to its caller and
\* the created or updated record remains in storage.
C17_ExportFailureSurfaced ==
  [][/\ \A translation \in FacadeCreateArgs :
          (/\ CreateTranslation(translation, FALSE)
           /\ autoExport
           /\ ~HasKey(Snapshot, translation.key)
           /\ Len(store') > Len(store)) =>
             /\ ~last'.ok
             /\ last'.err = "save failed"
             /\ \E i \in 1..Len(store') :
                  /\ store'[i].key = translation.key
                  /\ store'[i].translations = translation.translations
                  /\ store'[i].createdAt = clock
     /\ \A id \in Ids(store), updates \in FacadeUpdates :
          (/\ UpdateTranslation(id, updates, FALSE)
           /\ autoExport
           /\ store' # store) =>
             /\ ~last'.ok
             /\ last'.err = "save failed"
             /\ store'[findIndex(store', id)] =
                  MergeUpdates(store[findIndex(store, id)], updates, clock)]_vars

\* a create whose export failed: the call was rejected and the record is stored
C17_RejectedButStored ==
  /\ autoExport
  /\ last.op = "createTranslation"
  /\ ~last.ok
  /\ last.err = "save failed"
  /\ HasKey(store, <<"b">>)

----------------------------------------------------------------------------
(* The facade over a LocalStorageAdapter whose item cannot be parsed (it   *)
(* was written by something else): the adapter's load fails inside.        *)

LoadFailureInit ==
  /\ adapter = "local"
  /\ store = Unparsable
  /\ idCounter = 1
  /\ clock = 0
  /\ autoExport \in BOOLEAN
  /\ messageFiles \in FacadeFiles
  /\ last = NoCall
  /\ Idle

\* something else writes the item again
Overwritten ==
  /\ store # Unparsable
  /\ store' = Unparsable
  /\ UNCHANGED <<adapter, idCounter, clock, autoExport, messageFiles, last,
                 input, stage, output>>

LoadFailureNext ==
  \/ Tick
  \/ Overwritten
  \/ \E translation \in FacadeCreateArgs : CreateTranslation(translation, TRUE)
  \/ ExportTranslations

SpecLoadFailure == LoadFailureInit /\ [][LoadFailureNext]_vars

\* C18: storage errors propagate through the facade: when the adapter's load
\* fails, exportTranslations and createTranslation reject; neither answers
\* from an empty snapshot, and createTranslation does not create the record
\* (nor is anything else written).
C18_LoadErrorPropagates ==
  [][/\ \A translation \in FacadeCreateArgs :
          (CreateTranslation(translation, TRUE) /\ store = Unparsable) =>
            (~last'.ok /\ last'.err # "already exists" /\ store' = store)
     /\ (ExportTranslations /\ store = Unparsable) =>
            (~last'.ok /\ store' = store)]_vars

----------------------------------------------------------------------------
(* Backup and restore: the facade is filled by create calls, a backup is   *)
(* taken (output holds the parsed blob), and backup files are restored.    *)

\* the blob of backupTranslations as restoreFromBackup parses it, and what
\* storage holds after the snapshot was loaded for it
backupTranslations(kind, recs, files, now) ==
  LET loaded == loadTranslations(kind, recs, files, now)
  IN  [blob |-> [hasTranslations |-> TRUE, translations |-> loaded.translations],
       recs |-> loaded.recs]

\* the backup files of the facade in use, and one with an empty array
RestoreFiles == BackupFiles \cup {[hasTranslations |-> TRUE, translations |-> <<>>]}

BackupTranslations ==
  LET backup == backupTranslations(adapter, store, messageFiles, clock)
  IN  /\ last.n < MaxCalls
      /\ store' = backup.recs
      /\ output' = backup.blob
      /\ stage' = "backup"
      /\ last' = [NoCall EXCEPT !.op = "backupTranslations", !.n = last.n + 1]
      /\ UNCHANGED <<adapter, idCounter, clock, autoExport, messageFiles, input>>

\* the blob of the last backup is restored
RestoreOwnBackup ==
  /\ stage = "backup"
  /\ RestoreFromBackup(output)

BackupNext ==
  \/ Tick
  \/ \E translation \in FacadeCreateArgs : CreateTranslation(translation, TRUE)
  \/ BackupTranslations
  \/ RestoreOwnBackup
  \/ \E backup \in RestoreFiles : RestoreFromBackup(backup)

SpecBackup == Init /\ [][BackupNext]_vars

\* C19: restoreFromBackup replaces the snapshot exactly or not at all: a file
\* without a translations array is rejected and the stored records stay; for
\* any other file the stored records afterwards are exactly the array of the
\* file (or the call is rejected and they stay); restoring the blob of
\* backupTranslations taken on the same store leaves the snapshot unchanged.
C19_RestoreReplaces ==
  [][/\ \A backup \in RestoreFiles :
          RestoreFromBackup(backup) =>
            IF ~backup.hasTranslations
            THEN ~last'.ok /\ store' = store
            ELSE \/ ~last'.ok /\ store' = store
                 \/ /\ last'.ok
                    /\ Len(store') = Len(backup.translations)
                    /\ SeqToSet(store') = SeqToSet(backup.translations)
     /\ (RestoreOwnBackup /\ output.translations = Snapshot) =>
            /\ last'.ok
            /\ loadTranslations(adapter, store', messageFiles, clock).translations
                 = Snapshot]_vars

----------------------------------------------------------------------------
(* Facade contract: export *)

\* C20: exportTranslations performs no write to persistent storage: whatever
\* storage and the message files hold, the adapter's contents after the call
\* equal its contents before the call.
C20_ExportWritesNothing ==
  [][ExportTranslations => store' = store]_vars

----------------------------------------------------------------------------
(* Debounced search: one of SearchBox, the hook useTranslationManager and  *)
(* StandaloneTranslationManager receives search-term changes.  stage is    *)
(* the component's state: the time, the time and term of the last change,  *)
(* the timer its ref holds, and whether the box was cleared since the      *)
(* last keystroke.  input is the set of pending timers of setTimeout and   *)
(* output the list of terms delivered (to onChange by SearchBox, to the    *)
(* list query by the other two).                                           *)

MaxChanges == 3
MaxTime == 6

\* the debounce delay in ticks of the model's time
debounceMs == 2

SearchComponents == {"SearchBox", "useTranslationManager", "StandaloneTranslationManager"}

SearchTerms == {<<"a">>, <<"a", "b">>}

NoTimer == 0

SearchInit ==
  /\ adapter = "local"
  /\ store = <<>>
  /\ idCounter = 1
  /\ clock = 0
  /\ autoExport = FALSE
  /\ messageFiles = <<>>
  /\ last = NoCall
  /\ input = {}
  /\ stage \in [component : SearchComponents, now : {0}, changes : {0},
                lastChange : {0}, term : {EmptyStr}, ref : {NoTimer},
                timers : {0}, cleared : {FALSE}]
  /\ output = <<>>

SearchUnchanged == UNCHANGED <<adapter, store, idCounter, clock, autoExport,
                               messageFiles, last>>

\* clearTimeout(id): a timer that is no longer pending is not affected
clearTimeout(timers, id) == {t \in timers : t.id # id}

\* handleInputChange / handleSearchTermChange / handleSearchChange: the
\* change arrives less than the delay after the previous one.  SearchBox and
\* the hook clear the timer their ref holds and keep the new one in it;
\* StandaloneTranslationManager returns a cleanup function to a caller that
\* drops it, and keeps no ref.
SearchChange(term) ==
  LET keepsRef == stage.component # "StandaloneTranslationManager"
      timer == [id |-> stage.timers + 1, term |-> term,
                due |-> stage.now + debounceMs]
  IN  /\ stage.changes < MaxChanges
      /\ stage.changes > 0 => stage.now - stage.lastChange < debounceMs
      /\ input' = (IF keepsRef /\ stage.ref # NoTimer
                   THEN clearTimeout(input, stage.ref) ELSE input) \cup {timer}
      /\ stage' = [stage EXCEPT !.changes = stage.changes + 1,
                                !.lastChange = stage.now,
                                !.term = term,
                                !.ref = IF keepsRef THEN timer.id ELSE NoTimer,
                                !.timers = stage.timers + 1,
                                !.cleared = FALSE]
      /\ UNCHANGED output
      /\ SearchUnchanged

\* SearchBox.handleClear: onChange('') at once; timeoutRef is not touched
SearchClear ==
  /\ stage.component = "SearchBox"
  /\ stage.changes > 0
  /\ ~stage.cleared
  /\ output' = Append(output, EmptyStr)
  /\ stage' = [stage EXCEPT !.cleared = TRUE, !.term = EmptyStr]
  /\ UNCHANGED input
  /\ SearchUnchanged

\* a timer that is due runs its callback
TimerFires ==
  \E t \in input :
    /\ t.due <= stage.now
    /\ \A u \in input : u.id >= t.id
    /\ input' = input \ {t}
    /\ output' = Append(output, t.term)
    /\ UNCHANGED stage
    /\ SearchUnchanged

\* time passes when no timer is due
TimePasses ==
  /\ stage.now < MaxTime
  /\ \A t \in input : t.due > stage.now
  /\ stage' = [stage EXCEPT !.now = stage.now + 1]
  /\ UNCHANGED <<input, output>>
  /\ SearchUnchanged

SearchNext ==
  \/ \E term \in SearchTerms : SearchChange(term)
  \/ SearchClear
  \/ TimerFires
  \/ TimePasses

SpecSearch == SearchInit /\ [][SearchNext]_vars

\* C21: search is debounced: while changes arrive less than the delay apart no
\* query is issued, and once the input has settled exactly one query has been
\* issued, carrying the final term; for SearchBox, the hook and
\* StandaloneTranslationManager alike.
C21_SearchDebounced ==
  (stage.changes > 0 /\ ~stage.cleared /\ EmptyStr \notin SeqToSet(output)) =>
    /\ stage.now - stage.lastChange < debounceMs => output = <<>>
    /\ input = {} => output = <<stage.term>>

\* C30: clearing the search box wins over pending input: after
\* SearchBox.handleClear, and until the user types again, the last value
\* delivered to onChange is the empty string.
C30_ClearWins ==
  (stage.component = "SearchBox" /\ stage.cleared) =>
    (output # <<>> /\ output[Len(output)] = EmptyStr)

----------------------------------------------------------------------------
(* The hook useTranslationManager against a backend.  store is the list    *)
(* of keys the backend holds, input the set of requests of the hook that   *)
(* have not settled, stage the hook's state and refs, and output the       *)
(* answers of the list requests that settled.                              *)

MaxRequests == 3

\* the pageSize option, in records
initialPageSize == 2

HookKeys == {<<"a">>, <<"b">>}

HookSearches == {EmptyStr, <<"a">>}

NoRequest == 0

\* the backend's answer to ?page=1&page_size=size&search=search
ListAnswer(keys, size, search) ==
  LET matching == SelectSeq(keys, LAMBDA k : includes(k, search))
  IN  [results |-> slice(matching, 0, size), count |-> Len(matching)]

NoAnswers == [results |-> <<>>, count |-> 0]

HookInit ==
  /\ adapter = "local"
  /\ store \in {<<>>, <<<<"a">>, <<"b">>>>}
  /\ idCounter = 1
  /\ clock = 0
  /\ autoExport = FALSE
  /\ messageFiles = <<>>
  /\ last = NoCall
  /\ input = {}
  /\ stage = [translations |-> <<>>, loading |-> FALSE, error |-> FALSE,
              totalCount |-> 0, totalPages |-> 1,
              abortControllerRef |-> NoRequest, requests |-> 0,
              latest |-> NoRequest, mutations |-> 0, mounted |-> TRUE]
  /\ output = <<>>

HookUnchanged == UNCHANGED <<adapter, idCounter, clock, autoExport,
                             messageFiles, last>>

\* a request as apiCall sends it: a new AbortController goes into the ref,
\* the controller that was there is dropped without abort()
Request(op, search, ids, parent) ==
  [id |-> stage.requests + 1, op |-> op, search |-> search, ids |-> ids,
   parent |-> parent, phase |-> "sent", ok |-> TRUE, aborted |-> FALSE,
   answer |-> NoAnswers]

\* setLoading(true); setError(null); await apiCall(...)
Started(op, search, ids) ==
  /\ stage.mounted
  /\ stage.requests < MaxRequests
  /\ input' = input \cup {Request(op, search, ids, NoRequest)}
  /\ stage' = [stage EXCEPT
                 !.loading = TRUE, !.error = FALSE,
                 !.abortControllerRef = stage.requests + 1,
                 !.requests = stage.requests + 1,
                 !.latest = IF op = "list" THEN stage.requests + 1 ELSE stage.latest,
                 !.mutations = IF op = "list" THEN stage.mutations
                               ELSE stage.mutations + 1]
  /\ UNCHANGED <<store, output>>
  /\ HookUnchanged

Hook_fetchTranslations(search) == Started("list", search, <<>>)

Hook_createTranslation(key) == Started("create", EmptyStr, <<key>>)

Hook_deleteTranslation(key) == Started("delete", EmptyStr, <<key>>)

Hook_bulkDeleteTranslations(ids) == Started("bulkDelete", EmptyStr, ids)

\* the backend handles a request: it answers with a status, and a mutation
\* it accepts changes what it holds (answers to a hook that was unmounted
\* are not followed any further)
BackendAnswers(r, ok) ==
  /\ r \in input
  /\ r.phase = "sent"
  /\ ~r.aborted
  /\ stage.mounted
  /\ store' = IF ~ok \/ r.op = "list" THEN store
              ELSE IF r.op = "create"
                   THEN (IF r.ids[1] \in SeqToSet(store) THEN store
                         ELSE Append(store, r.ids[1]))
              ELSE SelectSeq(store, LAMBDA k : k \notin SeqToSet(r.ids))
  /\ input' = (input \ {r}) \cup
                {[r EXCEPT !.phase = "answered", !.ok = ok,
                           !.answer = IF ok /\ r.op = "list"
                                      THEN ListAnswer(store, initialPageSize, r.search)
                                      ELSE NoAnswers]}
  /\ UNCHANGED <<stage, output>>
  /\ HookUnchanged

\* the finally of apiCall: the ref is emptied when it still holds this
\* request's controller
RefAfter(r) ==
  IF stage.abortControllerRef = r.id THEN NoRequest ELSE stage.abortControllerRef

\* apiCall returns (null for an aborted request) or throws, and the rest of
\* the caller runs up to its finally, which sets loading to false
Settles(r) ==
  LET null == r.aborted
      thrown == ~r.aborted /\ ~r.ok
      base == [stage EXCEPT !.abortControllerRef = RefAfter(r)]
      done == [base EXCEPT !.loading = FALSE]
      failed == [done EXCEPT !.error = TRUE]
      nested == Request("list", EmptyStr, <<>>, r.id)
  IN  /\ r \in input
      /\ (r.phase = "answered" /\ stage.mounted) \/ r.aborted
      /\ CASE r.op = "list" ->
                /\ input' = {q \in input : q # r /\ q.id # r.parent}
                /\ output' = IF null \/ thrown THEN output
                             ELSE Append(output, [id |-> r.id, answer |-> r.answer])
                /\ stage' = IF null THEN done
                            ELSE IF thrown THEN failed
                            ELSE [done EXCEPT
                                    !.translations = r.answer.results,
                                    !.totalCount = r.answer.count,
                                    !.totalPages = Math_ceil(r.answer.count,
                                                             initialPageSize)]
           [] r.op = "create" ->
                IF null \/ thrown
                THEN /\ input' = input \ {r}
                     /\ stage' = failed
                     /\ UNCHANGED output
                ELSE /\ input' = (input \ {r}) \cup
                                   {[r EXCEPT !.phase = "refreshing"], nested}
                     /\ stage' = [base EXCEPT !.loading = TRUE, !.error = FALSE,
                                              !.abortControllerRef = nested.id,
                                              !.requests = stage.requests + 1,
                                              !.latest = nested.id]
                     /\ UNCHANGED output
           [] r.op \in {"delete", "bulkDelete"} ->
                /\ input' = input \ {r}
                /\ UNCHANGED output
                /\ stage' = IF thrown THEN failed
                            ELSE [done EXCEPT
                                    !.translations =
                                       SelectSeq(stage.translations,
                                                 LAMBDA k : k \notin SeqToSet(r.ids)),
                                    !.totalCount = stage.totalCount - Len(r.ids)]
      /\ UNCHANGED store
      /\ HookUnchanged

\* the cleanup effect: the controller in the ref is aborted
Unmount ==
  /\ stage.mounted
  /\ input # {}
  /\ stage' = [stage EXCEPT !.mounted = FALSE]
  /\ input' = {IF q.id = stage.abortControllerRef /\ q.phase = "sent"
               THEN [q EXCEPT !.aborted = TRUE] ELSE q : q \in input}
  /\ UNCHANGED <<store, output>>
  /\ HookUnchanged

HookNext ==
  \/ \E search \in HookSearches : Hook_fetchTranslations(search)
  \/ \E key \in HookKeys : Hook_createTranslation(key)
  \/ \E key \in HookKeys : Hook_deleteTranslation(key)
  \/ Hook_bulkDeleteTranslations(<<<<"a">>, <<"b">>>>)
  \/ \E r \in input, ok \in BOOLEAN : BackendAnswers(r, ok)
  \/ \E r \in input : Settles(r)
  \/ Unmount

SpecHook == HookInit /\ [][HookNext]_vars

\* C22: a superseded list request is cancelled: when list request B was
\* issued while list request A was in flight, then whatever order the two
\* answers arrive in, once both have settled the translations, totalCount and
\* totalPages shown are those of B, the request issued last.
C22_LatestRequestWins ==
  (/\ stage.mounted
   /\ input = {}
   /\ stage.mutations = 0) =>
     \A i \in 1..Len(output) :
       output[i].id = stage.latest =>
         /\ stage.translations = output[i].answer.results
         /\ stage.totalCount = output[i].answer.count
         /\ stage.totalPages = Math_ceil(output[i].answer.count, initialPageSize)

\* C28: the pagination state of the hook stays consistent: in the initial
\* state and after every completed fetch, deleteTranslation and
\* bulkDeleteTranslations, totalPages = ceil(totalCount / pageSize),
\* totalCount >= 0 and totalCount >= the number of records in translations.
C28_PaginationConsistent ==
  (stage.mounted /\ input = {}) =>
    /\ stage.totalCount >= 0
    /\ stage.totalCount >= Len(stage.translations)
    /\ stage.totalPages = Math_ceil(stage.totalCount, initialPageSize)

\* C29: the loading flag covers every operation in flight: loading is true
\* whenever a list request or mutation the hook started has not settled, and
\* false once all of them have settled.
C29_LoadingCoversInFlight ==
  stage.mounted => (stage.loading <=> input # {})

----------------------------------------------------------------------------
(* The facade called with keys of every shape: well-formed ones, the empty *)
(* key, and keys with an empty dot-segment.                                *)

ShapedKeys ==
  {<<"a">>, <<"a", ".", "b">>, EmptyStr, <<".", "a">>, <<"a", ".">>,
   <<"a", ".", ".", "b">>}

KeyCreateArgs ==
  [hasId : {FALSE}, id : {NoId}, key : ShapedKeys,
   translations : {Tr(<<"x">>, Undefined)}]

KeyUpdates == {[NoUpdates EXCEPT !.has = {"key"}, !.key = k] : k \in ShapedKeys}

\* a CSV file with one row per key
KeyFiles ==
  {[ext |-> "csv", data |-> <<>>,
    text |-> FileManager_exportAsCSV(<<FileRecord(k, <<"x">>, Undefined)>>)] :
     k \in ShapedKeys \ {EmptyStr}}

KeyNext ==
  \/ Tick
  \/ \E translation \in KeyCreateArgs : CreateTranslation(translation, TRUE)
  \/ \E id \in Ids(store), updates \in KeyUpdates : UpdateTranslation(id, updates, TRUE)
  \/ \E file \in KeyFiles : ImportTranslations(file, 1)

SpecKeys == Init /\ [][KeyNext]_vars

\* non-empty, and no empty segment between, before or after the dots
WellFormedKey(key) ==
  /\ key # EmptyStr
  /\ \A i \in 1..Len(split(key)) : split(key)[i] # EmptyStr

\* C23: key well-formedness is an invariant of the collection: in every state
\* reached by createTranslation, updateTranslation and importTranslations
\* calls every stored record's key is non-empty and has no empty dot-segment.
C23_KeysWellFormed ==
  \A i \in 1..Len(store) : WellFormedKey(store[i].key)

----------------------------------------------------------------------------
(* Bulk deletion where the adapter's store may reject a delete (the        *)
(* database cannot be opened, the item cannot be written).                 *)

BulkNext ==
  \/ Tick
  \/ \E translation \in FacadeCreateArgs : CreateTranslation(translation, TRUE)
  \/ \E ids \in BulkIds(store), failAt \in 0..2 :
       /\ failAt <= Len(ids)
       /\ failAt > 0 => adapter # "memory"
       /\ BulkDeleteTranslations(ids, failAt)

SpecBulk == Init /\ [][BulkNext]_vars

\* the stored list after the adapter's delete was called for each id
RECURSIVE AfterDeletes(_, _)
AfterDeletes(recs, ids) ==
  IF ids = <<>> THEN recs
  ELSE AfterDeletes(SelectSeq(recs, LAMBDA t : t.id # Head(ids)), Tail(ids))

\* C24: bulkDeleteTranslations is a per-id loop: when every delete succeeds
\* storage is as after the adapter's delete for each id in list order and one
\* auto-export follows; when the delete of the k-th id fails the first k-1
\* deletions stay applied, no later id is deleted, the error reaches the
\* caller and nothing is exported.
C24_BulkDeleteLoop ==
  [][\A ids \in BulkIds(store), failAt \in 0..2 :
       (BulkDeleteTranslations(ids, failAt) /\ failAt <= Len(ids)) =>
         IF failAt = 0
         THEN /\ last'.ok
              /\ last'.exported = autoExport
              /\ store' = AfterDeletes(store, ids)
         ELSE /\ ~last'.ok
              /\ ~last'.exported
              /\ store' = AfterDeletes(store, SubSeq(ids, 1, failAt - 1))]_vars

----------------------------------------------------------------------------
(* Deleting and then reading: the facade calls that remove records,        *)
(* followed by getTranslations. After GetTranslations input, stage and     *)
(* output hold the query and its answer.                                   *)

DurableNext ==
  \/ Tick
  \/ \E translation \in FacadeCreateArgs : CreateTranslation(translation, TRUE)
  \/ \E id \in CallIds(store) : store # <<>> /\ DeleteTranslation(id)
  \/ \E ids \in BulkIds(store) :
       store # <<>> /\ BulkDeleteTranslations(ids, 0)
  \/ ClearAllTranslations
  \/ GetTranslations(1, MaxPageSize, EmptyStr)

SpecDurable == Init /\ [][DurableNext]_vars

\* the last facade call was a deletion that succeeded (the deletes of
\* DurableNext are made on a store that holds records)
AfterDeletion ==
  /\ last.op \in {"clearAllTranslations", "deleteTranslation",
                  "bulkDeleteTranslations"}
  /\ last.ok

\* C25: deletion is durable: clearAllTranslations, and a delete that removes
\* the last stored record, leave storage empty whatever the message files
\* hold and whether or not autoExport is on, and a getTranslations made after
\* them (no create, import or restore in between) answers count 0 and leaves
\* storage empty.
C25_DeletionDurable ==
  [][/\ (ClearAllTranslations /\ last'.ok) => store' = <<>>
     /\ \A id \in CallIds(store) :
          (DeleteTranslation(id) /\ last'.ok /\ store # <<>>
             /\ AfterDeletes(store, <<id>>) = <<>>) => store' = <<>>
     /\ \A ids \in BulkIds(store) :
          (BulkDeleteTranslations(ids, 0) /\ last'.ok /\ store # <<>>
             /\ AfterDeletes(store, ids) = <<>>) => store' = <<>>
     /\ (GetTranslations(1, MaxPageSize, EmptyStr) /\ AfterDeletion
           /\ store = <<>>) =>
          (output'.count = 0 /\ store' = <<>>)]_vars

\* the part of C25 about reading: it fails without autoExport too
C25_ReadAfterDeletion ==
  [][(GetTranslations(1, MaxPageSize, EmptyStr) /\ AfterDeletion
        /\ store = <<>> /\ ~autoExport) =>
       (output'.count = 0 /\ store' = <<>>)]_vars

----------------------------------------------------------------------------
(* Two createTranslation calls in progress at once. A call gives up the    *)
(* thread at each await, so another call's steps can run in between:       *)
(* input is the translation both calls pass, stage.calls holds where each  *)
(* call stands and what it has read, stage.overlapped tells whether the    *)
(* second call started before the first had completed, output the outcome  *)
(* of each call.                                                           *)

Calls == {1, 2}

NoSnapshot == <<>>

CallAt(pc, existing, translations, stamp) ==
  [pc |-> pc, existing |-> existing, translations |-> translations,
   stamp |-> stamp]

OverlapInit ==
  /\ adapter \in Adapters
  /\ store = <<>>
  /\ idCounter = 1
  /\ clock = 0
  /\ autoExport \in BOOLEAN
  /\ messageFiles \in FacadeFiles
  /\ last = NoCall
  /\ input \in FacadeCreateArgs
  /\ stage = [calls |-> [c \in Calls |-> CallAt("idle", NoSnapshot, NoSnapshot, 0)],
              overlapped |-> FALSE]
  /\ output = [c \in Calls |-> "pending"]

InProgress(c) == stage.calls[c].pc \in {"loaded", "creating"}

\* const existing = await this.loadTranslations()
Call_loadTranslations(c) ==
  LET loaded == loadTranslations(adapter, store, messageFiles, clock)
  IN  /\ stage.calls[c].pc = "idle"
      /\ store' = loaded.recs
      /\ stage' = [calls |-> [stage.calls EXCEPT
                                ![c] = CallAt("loaded", loaded.translations,
                                              NoSnapshot, 0)],
                   overlapped |-> stage.overlapped
                                    \/ \E d \in Calls \ {c} : InProgress(d)]
      /\ UNCHANGED <<adapter, idCounter, clock, autoExport, messageFiles, last,
                     input, output>>

\* the duplicate test on what the call has read, then the call of
\* storage.create up to its first await: the localStorage adapter reads the
\* item, the IndexedDB adapter builds the record and opens the database, the
\* memory adapter, which awaits nothing, pushes the record
Call_checkDuplicate(c) ==
  /\ stage.calls[c].pc = "loaded"
  /\ IF HasKey(stage.calls[c].existing, input.key)
     THEN /\ stage' = [stage EXCEPT !.calls[c].pc = "done"]
          /\ output' = [output EXCEPT ![c] = "rejected"]
          /\ UNCHANGED <<store, idCounter>>
     ELSE /\ stage' = [stage EXCEPT
                         !.calls[c] = CallAt("creating", @.existing,
                                             LocalStorage_load(store), clock)]
          /\ store' = IF adapter = "memory"
                      THEN Memory_create(store, idCounter, input, clock).recs
                      ELSE store
          /\ idCounter' = IF adapter = "memory" THEN idCounter + 1 ELSE idCounter
          /\ UNCHANGED output
  /\ UNCHANGED <<adapter, clock, autoExport, messageFiles, last, input>>

\* storage.create completes: the localStorage adapter saves the list it read
\* with the new record pushed, the IndexedDB adapter adds the record it
\* built; then the auto-export
Call_created(c) ==
  LET call == stage.calls[c]
      created ==
        CASE adapter = "local" ->
               LocalStorage_save(store,
                 Append(call.translations,
                        NewTranslation(StrId(clock), input, clock)))
          [] adapter = "indexeddb" ->
               StoreAdd(store, NewTranslation(StrId(call.stamp), input, call.stamp))
          [] adapter = "memory" -> Ok(store, NoRecord)
  IN  /\ call.pc = "creating"
      /\ store' = IF created.ok
                  THEN AfterAutoExport(autoExport, adapter, created.recs,
                                       messageFiles, clock)
                  ELSE created.recs
      /\ Len(store') <= MaxRecords
      /\ stage' = [stage EXCEPT !.calls[c].pc = "done"]
      /\ output' = [output EXCEPT
                      ![c] = IF created.ok THEN "resolved" ELSE "rejected"]
      /\ UNCHANGED <<adapter, idCounter, clock, autoExport, messageFiles, last,
                     input>>

OverlapNext ==
  \/ Tick
  \/ \E c \in Calls : Call_loadTranslations(c)
  \/ \E c \in Calls : Call_checkDuplicate(c)
  \/ \E c \in Calls : Call_created(c)

SpecOverlap == OverlapInit /\ [][OverlapNext]_vars

\* the stored records with the key the calls create
WithKey(recs, key) == {i \in 1..Len(recs) : recs[i].key = key}

\* C26: when two createTranslation calls for the same key were in progress
\* at the same time and both have completed, at most one of them has
\* resolved and at most one record with that key is stored.
C26_OverlappingCreates ==
  (stage.overlapped /\ \A c \in Calls : stage.calls[c].pc = "done") =>
    /\ Cardinality({c \in Calls : output[c] = "resolved"}) <= 1
    /\ Cardinality(WithKey(store, input.key)) <= 1

\* on the localStorage adapter both calls resolve and the record of one of
\* them is written over by the other's save
C26_BothResolveOneStored ==
  ~(/\ adapter = "local"
    /\ \A c \in Calls : output[c] = "resolved"
    /\ Cardinality(WithKey(store, input.key)) = 1)

\* the unique index on key of the IndexedDB adapter keeps the claim
C26_IndexedDBKeeps ==
  adapter = "indexeddb" => C26_OverlappingCreates

----------------------------------------------------------------------------
(* usePagination. The hook's callbacks close over the values of the last   *)
(* render; a state setter queues an update that the next render applies.   *)
(* store is the totalCount option, stage the state ([currentPage,          *)
(* pageSize]) and its values at the last render (stage.rendered), input    *)
(* the updates queued since then, output the number of calls made.         *)

MaxTotalCount == 4
MaxPending == 3
MaxPageCalls == 4

Math_max(a, b) == IF a >= b THEN a ELSE b
Math_min(a, b) == IF a <= b THEN a ELSE b

\* Math.max(1, Math.ceil(totalCount / pageSize))
Pagination_totalPages(count, size) == Math_max(1, Math_ceil(count, size))

\* currentPage < totalPages, currentPage > 1, as of the last render
Pagination_hasNextPage ==
  stage.rendered.currentPage
    < Pagination_totalPages(store, stage.rendered.pageSize)
Pagination_hasPreviousPage == stage.rendered.currentPage > 1

PageInit ==
  /\ adapter = "memory"
  /\ store \in 0..MaxTotalCount
  /\ idCounter = 1
  /\ clock = 0
  /\ autoExport = FALSE
  /\ messageFiles = <<>>
  /\ last = NoCall
  /\ \E initialPage \in 1..MaxPage, size \in 1..MaxPageSize :
       /\ initialPage <= Pagination_totalPages(store, size)
       /\ stage = [currentPage |-> initialPage, pageSize |-> size,
                   rendered |-> [currentPage |-> initialPage, pageSize |-> size]]
  /\ input = <<>>
  /\ output = 0

\* the call queues the updates
Queued(updates) ==
  /\ output < MaxPageCalls
  /\ Len(input) + Len(updates) <= MaxPending
  /\ input' = input \o updates
  /\ output' = output + 1
  /\ UNCHANGED <<adapter, store, idCounter, clock, autoExport, messageFiles,
                 last, stage>>

SetCurrentPage(value) == [set |-> "currentPage", to |-> value, by |-> 0]
StepCurrentPage(step) == [set |-> "currentPage", to |-> 0, by |-> step]
SetPageSize(value) == [set |-> "pageSize", to |-> value, by |-> 0]

GoToPage(page) ==
  LET validPage ==
        Math_max(1, Math_min(page, Pagination_totalPages(
                                      store, stage.rendered.pageSize)))
  IN  Queued(<<SetCurrentPage(validPage)>>)

NextPage ==
  Queued(IF Pagination_hasNextPage THEN <<StepCurrentPage(1)>> ELSE <<>>)

PreviousPage ==
  Queued(IF Pagination_hasPreviousPage THEN <<StepCurrentPage(-1)>> ELSE <<>>)

ChangePageSize(newPageSize) ==
  LET currentStartIndex ==
        (stage.rendered.currentPage - 1) * stage.rendered.pageSize
      newPage == Math_max(1, (currentStartIndex \div newPageSize) + 1)
  IN  Queued(<<SetPageSize(newPageSize), SetCurrentPage(newPage)>>)

\* the state after the queued updates, applied in the order they were queued
RECURSIVE Applied(_, _)
Applied(state, updates) ==
  IF updates = <<>> THEN state
  ELSE LET u == Head(updates)
           next == IF u.set = "pageSize"
                   THEN [state EXCEPT !.pageSize = u.to]
                   ELSE IF u.by = 0
                        THEN [state EXCEPT !.currentPage = u.to]
                        ELSE [state EXCEPT !.currentPage = @ + u.by]
       IN  Applied(next, Tail(updates))

Render ==
  LET state == Applied([currentPage |-> stage.currentPage,
                        pageSize |-> stage.pageSize], input)
  IN  /\ input # <<>>
      /\ stage' = [currentPage |-> state.currentPage,
                   pageSize |-> state.pageSize,
                   rendered |-> state]
      /\ input' = <<>>
      /\ UNCHANGED <<adapter, store, idCounter, clock, autoExport,
                     messageFiles, last, output>>

PageNext ==
  \/ \E page \in 0..(MaxPage + 1) : GoToPage(page)
  \/ NextPage
  \/ PreviousPage
  \/ \E newPageSize \in 1..MaxPageSize : ChangePageSize(newPageSize)
  \/ Render

SpecPage == PageInit /\ [][PageNext]_vars

\* C27: usePagination keeps the current page in range: once the queued
\* updates are applied, 1 <= currentPage <= totalPages, with
\* totalPages = max(1, ceil(totalCount / pageSize)).
C27_PageInRange ==
  input = <<>> =>
    /\ 1 <= stage.currentPage
    /\ stage.currentPage <= Pagination_totalPages(store, stage.pageSize)

\* with a render between any two calls the page stays in range
C27_OneCallPerRender ==
  [][(Render /\ Len(input) <= 1
        /\ stage.currentPage
             <= Pagination_totalPages(store, stage.pageSize)
        /\ stage.currentPage >= 1) =>
       /\ 1 <= stage'.currentPage
       /\ stage'.currentPage
            <= Pagination_totalPages(store, stage'.pageSize)]_vars

====
